---------------------------- MODULE Spec2Model ----------------------------
(***************************************************************************)
(* A model of mdsync (src/mdsync.py): Markdown files with a YAML           *)
(* frontmatter block, the Google Docs and Confluence documents they are    *)
(* synced with, and the command-line dispatcher main().                    *)
(*                                                                         *)
(* Text is modelled line by line.  A string is the sequence of its lines   *)
(* (what str.split('\n') returns, so the empty string is one empty line);  *)
(* every line is one of a few kinds of line that the frontmatter code      *)
(* tells apart.                                                            *)
(***************************************************************************)
EXTENDS Naturals, Sequences, FiniteSets, TLC

(***************************************************************************)
(* Lines.  v carries the value of a metadata line or the id of a text line.*)
(***************************************************************************)
Line(t, k, v) == [t |-> t, k |-> k, v |-> v]

\* the line "---"
Dash3 == Line("dash3", "", <<>>)
\* the line "----": a frontmatter boundary for python-frontmatter
\* (^-{3,}\s*$), but not equal to "---"
Dash4 == Line("dash4", "", <<>>)
\* the line "-": what is left of "----" after its first three characters
Dash1 == Line("dash1", "", <<>>)
\* the empty line
Blank == Line("blank", "", <<>>)
\* a line of body text
Text(n) == Line("text", "", <<n>>)
\* a YAML mapping entry "key: value" (a nested mapping counts as one entry)
Meta(k, v) == Line("meta", k, v)

(***************************************************************************)
(* Metadata: the keys mdsync reads and writes, in the order yaml.dump      *)
(* sorts them.  A metadata dict is a function on Keys; Absent marks a key  *)
(* that is not in the dict.                                                *)
(***************************************************************************)
KeyOrder == << "batch", "confluence_created", "confluence_modified",
               "confluence_url", "gdoc_created", "gdoc_modified",
               "gdoc_url", "labels", "title" >>
Keys == { KeyOrder[i] : i \in 1..Len(KeyOrder) }
Absent == <<>>
NoMeta == [k \in Keys |-> Absent]
Has(m, k) == m[k] # Absent

(***************************************************************************)
(* str.strip() on a text of whole lines: leading and trailing empty lines  *)
(* go; the empty string is left when nothing else is.                      *)
(***************************************************************************)
RECURSIVE LStrip(_)
LStrip(s) == IF s = <<>> THEN <<>>
             ELSE IF Head(s) = Blank THEN LStrip(Tail(s)) ELSE s

RECURSIVE RStrip(_)
RStrip(s) == IF s = <<>> THEN <<>>
             ELSE IF s[Len(s)] = Blank THEN RStrip(SubSeq(s, 1, Len(s) - 1)) ELSE s

\* '\n'.join of no lines is the empty string, which is one empty line
Str(s) == IF s = <<>> THEN <<Blank>> ELSE s

Strip(s) == Str(RStrip(LStrip(s)))

\* str.lstrip('\n')
LStripNewlines(s) == Str(LStrip(s))

\* the index of the first line from position i on that is of one of the
\* kinds, 0 if none
FirstFrom(s, i, kinds) ==
    IF \E j \in i..Len(s) : s[j].t \in kinds
    THEN CHOOSE j \in i..Len(s) : s[j].t \in kinds /\ \A h \in i..(j - 1) : s[h].t \notin kinds
    ELSE 0


(***************************************************************************)
(* python-frontmatter, as mdsync uses it (frontmatter.loads and            *)
(* frontmatter.dumps, called at src/mdsync.py 716, 748, 755, 795, 811).    *)
(***************************************************************************)
\* YAMLHandler.FM_BOUNDARY, ^-{3,}\s*$
Boundary == {"dash3", "dash4"}
IsBoundary(l) == l.t \in Boundary

\* the line "{}", which yaml.dump writes for an empty dict
EmptyMap == Line("flow", "", <<>>)

IsMapping(l) == l.t \in {"meta", "flow"}

\* the dict a block of mapping entries loads as: a repeated key keeps its
\* last value
MetaOf(lines) ==
    [k \in Keys |->
        IF \E i \in 1..Len(lines) : lines[i].t = "meta" /\ lines[i].k = k
        THEN lines[CHOOSE i \in 1..Len(lines) :
                     /\ lines[i].t = "meta" /\ lines[i].k = k
                     /\ \A j \in (i + 1)..Len(lines) :
                            ~(lines[j].t = "meta" /\ lines[j].k = k)].v
        ELSE Absent]

\* yaml.load of a frontmatter block raises on mapping entries mixed with
\* other text
YamlRaises(lines) ==
    /\ \E i \in 1..Len(lines) : IsMapping(lines[i])
    /\ \E i \in 1..Len(lines) : lines[i] # Blank /\ ~IsMapping(lines[i])

\* the post python-frontmatter makes of a block fm and the text rest after it
FmPost(text, fm, rest) ==
    IF YamlRaises(fm)
    THEN [raised |-> TRUE, found |-> FALSE, meta |-> NoMeta, body |-> text]
    ELSE [raised |-> FALSE,
          found  |-> \E i \in 1..Len(fm) : IsMapping(fm[i]),
          meta   |-> MetaOf(fm),
          body   |-> Strip(rest)]

\* the split of stripped text at its second boundary line j (0: there is none)
FmSplit(text, j) ==
    IF ~IsBoundary(text[1]) \/ j = 0
    THEN [raised |-> FALSE, found |-> FALSE, meta |-> NoMeta, body |-> text]
    ELSE FmPost(text, SubSeq(text, 2, j - 1), SubSeq(text, j + 1, Len(text)))

\* the parse of stripped text
FmParse(text) == FmSplit(text, FirstFrom(text, 2, Boundary))

\* frontmatter.loads(content): the text is stripped first; the block between
\* the first two boundary lines is the metadata when the text starts with a
\* boundary line; what follows, stripped, is the content of the post
FmLoads(content) == FmParse(Strip(content))

RECURSIVE MetaLinesFrom(_, _)
MetaLinesFrom(m, i) ==
    IF i > Len(KeyOrder) THEN <<>>
    ELSE (IF Has(m, KeyOrder[i]) THEN <<Meta(KeyOrder[i], m[KeyOrder[i]])>> ELSE <<>>)
         \o MetaLinesFrom(m, i + 1)

\* yaml.dump(metadata) with sorted keys
YamlDump(m) == IF m = NoMeta THEN <<EmptyMap>> ELSE MetaLinesFrom(m, 1)

\* frontmatter.dumps(post): "---\n{metadata}\n---\n\n{content}\n", stripped
FmDumps(m, body) == Strip(<<Dash3>> \o YamlDump(m) \o <<Dash3, Blank>> \o body)

(***************************************************************************)
(* The frontmatter store of mdsync.                                        *)
(***************************************************************************)
\* content.startswith('---')
StartsWithDashes(content) == content[1].t \in Boundary

\* post.metadata, or the empty result of the except branch
MetadataOf(post) == IF post.raised THEN NoMeta ELSE post.meta

extract_frontmatter_metadata(content) == MetadataOf(FmLoads(content))

\* extract_frontmatter_metadata finds a frontmatter block in the content
HasFrontmatter(content) == FmLoads(content).found

\* a variant of AfterFrontmatter that returns the text after the closing
\* line as it is, without strip()
AfterFrontmatter_unstripped(content, i) ==
    IF i # 0 THEN Str(SubSeq(content, i + 1, Len(content))) ELSE content

\* the text after the closing line i of the frontmatter (0: there is none)
AfterFrontmatter(content, i) ==
    IF i # 0 THEN Strip(SubSeq(content, i + 1, Len(content))) ELSE content

strip_frontmatter_for_remote_sync(content) ==
    IF StartsWithDashes(content) /\ Len(content) > 1 /\ content[1] = Dash3
    THEN AfterFrontmatter(content, FirstFrom(content, 2, {"dash3"}))
    ELSE content

\* a patch is a dict in insertion order: a sequence of <<key, value>>
RECURSIVE Merge(_, _)
Merge(m, patch) ==
    IF patch = <<>> THEN m
    ELSE Merge([m EXCEPT ![Head(patch)[1]] = Head(patch)[2]], Tail(patch))

\* yaml.dump(metadata, sort_keys=False)
PatchLines(patch) == IF patch = <<>> THEN <<EmptyMap>>
                     ELSE [i \in 1..Len(patch) |-> Meta(patch[i][1], patch[i][2])]

\* f"---\n{frontmatter_yaml}---\n\n{content}"
Prepend(patch, content) == <<Dash3>> \o PatchLines(patch) \o <<Dash3, Blank>> \o content

\* the except branch of update_frontmatter_metadata for content that starts
\* with dashes: e is what content.find('---', 3) finds (0: nothing)
ReplaceBlock(content, patch, e) ==
    IF e = 0 THEN Prepend(patch, content)
    ELSE Prepend(patch,
                 LStripNewlines((IF content[e] = Dash4 THEN <<Dash1>> ELSE <<Blank>>)
                                \o SubSeq(content, e + 1, Len(content))))

\* a variant of UpdatePost whose try branch writes the patch alone, dropping
\* the metadata the content had
UpdatePost_patch_only(content, patch, post) ==
    IF ~post.raised THEN FmDumps(Merge(NoMeta, patch), post.body)
    ELSE IF ~StartsWithDashes(content) THEN Prepend(patch, content)
    ELSE ReplaceBlock(content, patch, FirstFrom(content, 2, Boundary))

\* update_frontmatter_metadata, given what frontmatter.loads made of the content
UpdatePost(content, patch, post) ==
    IF ~post.raised THEN FmDumps(Merge(post.meta, patch), post.body)
    ELSE IF ~StartsWithDashes(content) THEN Prepend(patch, content)
    ELSE ReplaceBlock(content, patch, FirstFrom(content, 2, Boundary))

update_frontmatter_metadata(content, patch) == UpdatePost(content, patch, FmLoads(content))

(***************************************************************************)
(* The world: the local Markdown files, the Google Docs, the Confluence    *)
(* pages, the configuration of the machine, the clock, and what the last   *)
(* invocation of mdsync did.                                               *)
(***************************************************************************)
VARIABLES files, gdocs, pages, config, now, last

vars == <<files, gdocs, pages, config, now, last>>

Files   == {"a.md", "b.md"}
DocIds  == {1, 2, 3}
PageIds == {1, 2, 3}

\* the clock stops the model at MaxClock
MaxClock == 3

\* Values of metadata entries.  A URL is <<id, form>>: form 1 is the URL
\* mdsync writes (.../document/d/ID/edit, .../pages/ID), form 2 a URL that
\* names the document as ...?id=ID, form 0 a URL that holds no id (its id
\* is 0).  A timestamp is <<time, 0>> as datetime.now().isoformat() writes
\* it and <<time, 1>> as the Drive API writes it; a title is <<n>>.
Url(id)       == <<id, 1>>
UrlAlt(id)    == <<id, 2>>
UrlNoId       == <<0, 0>>
LocalTime(t)  == <<t, 0>>
RemoteTime(t) == <<t, 1>>
Title(n)      == <<n>>

\* Path(markdown_path).stem, as a title
Stem(f) == IF f = "a.md" THEN 11 ELSE 12

\* extract_doc_id_from_url: the id after /document/d/ or id=, else None (0)
extract_doc_id_from_url(url) == IF url[2] \in {1, 2} THEN url[1] ELSE 0

\* extract_doc_id: the id after /document/d/, else the argument itself,
\* which then is a string that equals no document id (0)
extract_doc_id(url) == IF url[2] = 1 THEN url[1] ELSE 0

\* parse_confluence_destination(dest)['page_id']: the digits after /pages/,
\* else None (0)
parse_confluence_destination(url) == IF url[2] = 1 THEN url[1] ELSE 0

\* what one operation did: the new files, documents and pages, whether the
\* process ended in it (halt) and with which exit code, whether an error was
\* reported, the content writes it issued and the texts it uploaded
Eff(fs, gd, pg, halt, code, err, writes, uploads) ==
    [fs |-> fs, gd |-> gd, pg |-> pg, halt |-> halt, code |-> code, err |-> err,
     writes |-> writes, uploads |-> uploads]

\* build(..., credentials=creds) works with acquired credentials, or, given
\* None, with application default credentials when the environment has them
GoogleUsable(cr, env) == cr \/ env.adc

check_gdoc_frozen_status(gd, d, cr, env) ==
    IF GoogleUsable(cr, env) /\ d \in DocIds /\ gd[d].exists
    THEN gd[d].frozen
    ELSE FALSE

check_confluence_frozen_status(pg, p, env) ==
    IF env.ccfg /\ p \in PageIds /\ pg[p].exists
    THEN pg[p].frozen
    ELSE FALSE

\* update_frontmatter_gdoc_url, given what frontmatter.loads made of the file
gdoc_url_post(post, d, t) ==
    FmDumps([post.meta EXCEPT
                !["gdoc_url"]      = Url(d),
                !["gdoc_created"]  = IF Has(post.meta, "gdoc_created")
                                     THEN @ ELSE LocalTime(t),
                !["gdoc_modified"] = LocalTime(t)],
            post.body)

\* the file after the write of its new text, untouched when the load raised
Rewritten(fs, f, post, text) == IF post.raised THEN fs ELSE [fs EXCEPT ![f] = text]

update_frontmatter_gdoc_url(fs, f, d, t) ==
    Rewritten(fs, f, FmLoads(fs[f]), gdoc_url_post(FmLoads(fs[f]), d, t))

\* update_frontmatter_confluence_url, given what frontmatter.loads made of the file
confluence_url_post(post, p, t) ==
    FmDumps([post.meta EXCEPT
                !["confluence_url"]      = Url(p),
                !["confluence_created"]  = IF Has(post.meta, "confluence_created")
                                           THEN @ ELSE LocalTime(t),
                !["confluence_modified"] = LocalTime(t)],
            post.body)

update_frontmatter_confluence_url(fs, f, p, t) ==
    Rewritten(fs, f, FmLoads(fs[f]), confluence_url_post(FmLoads(fs[f]), p, t))

\* one uploaded text: the file content it was made from and the text sent
Upload(src, text) == [src |-> src, text |-> text]
\* one content write issued to a remote document, and what the frozen check
\* reports for that document when the write is issued
Write(plat, id, frozen) == [plat |-> plat, id |-> id, frozen |-> frozen]

\* the Drive API accepts a content update of an existing document that is
\* not read-only
GdocAccepts(gd, d, env) == env.wr /\ d \in DocIds /\ gd[d].exists /\ ~gd[d].frozen

\* a variant of import_markdown_to_gdoc that writes the sync record before
\* the upload, so that a rejected upload leaves the record in the file
import_markdown_to_gdoc_record_first(fs, gd, pg, f, d, cr, env, t) ==
    LET content_for_gdoc == strip_frontmatter_for_remote_sync(fs[f])
        w == {Write("gdoc", d, check_gdoc_frozen_status(gd, d, cr, env))}
        u == {Upload(fs[f], content_for_gdoc)}
    IN  IF ~GoogleUsable(cr, env)
        THEN Eff(fs, gd, pg, TRUE, 1, TRUE, {}, {})
        ELSE IF ~GdocAccepts(gd, d, env)
        THEN Eff(update_frontmatter_gdoc_url(fs, f, d, t), gd, pg, TRUE, 1, TRUE, w, u)
        ELSE Eff(update_frontmatter_gdoc_url(fs, f, d, t),
                 [gd EXCEPT ![d].body = content_for_gdoc, ![d].modified = t],
                 pg, FALSE, 0, FALSE, w, u)

import_markdown_to_gdoc(fs, gd, pg, f, d, cr, env, t) ==
    LET content_for_gdoc == strip_frontmatter_for_remote_sync(fs[f])
        w == {Write("gdoc", d, check_gdoc_frozen_status(gd, d, cr, env))}
        u == {Upload(fs[f], content_for_gdoc)}
    IN  IF ~GoogleUsable(cr, env)
        THEN Eff(fs, gd, pg, TRUE, 1, TRUE, {}, {})
        ELSE IF ~GdocAccepts(gd, d, env)
        THEN Eff(fs, gd, pg, TRUE, 1, TRUE, w, u)
        ELSE Eff(update_frontmatter_gdoc_url(fs, f, d, t),
                 [gd EXCEPT ![d].body = content_for_gdoc, ![d].modified = t],
                 pg, FALSE, 0, FALSE, w, u)

\* the id the platform gives a new document: one not in use
FreeDoc(gd)  == CHOOSE d \in DocIds : ~gd[d].exists /\ \A e \in DocIds : ~gd[e].exists => d <= e
FreePage(pg) == CHOOSE p \in PageIds : ~pg[p].exists /\ \A e \in PageIds : ~pg[e].exists => p <= e
HasFreeDoc(gd)  == \E d \in DocIds : ~gd[d].exists
HasFreePage(pg) == \E p \in PageIds : ~pg[p].exists

NewDoc(body, title, t) ==
    [exists |-> TRUE, body |-> body, frozen |-> FALSE, created |-> t, modified |-> t,
     title |-> title]

create_new_gdoc_from_markdown(fs, gd, pg, f, cr, env, t) ==
    LET metadata == extract_frontmatter_metadata(fs[f])
        content_for_gdoc == strip_frontmatter_for_remote_sync(fs[f])
        doc_name == IF Has(metadata, "title") THEN metadata["title"][1] ELSE Stem(f)
        doc_id == FreeDoc(gd)
        u == {Upload(fs[f], content_for_gdoc)}
    IN  IF ~GoogleUsable(cr, env) \/ ~env.wr
        THEN Eff(fs, gd, pg, TRUE, 1, TRUE, {}, IF GoogleUsable(cr, env) THEN u ELSE {})
        ELSE Eff(update_frontmatter_gdoc_url(fs, f, doc_id, t),
                 [gd EXCEPT ![doc_id] = NewDoc(content_for_gdoc, doc_name, t)],
                 pg, FALSE, 0, FALSE, {}, u)

\* the Drive API serves the metadata and the Markdown export of a document
GdocReadable(gd, d, cr, env) ==
    GoogleUsable(cr, env) /\ d \in DocIds /\ gd[d].exists

\* export_gdoc_to_markdown, the text written to output_path: the exported
\* Markdown under a frontmatter block made from the document's metadata
gdoc_frontmatter_content(doc, d) ==
    LET markdown_content == doc.body
        block == << Meta("title", Title(doc.title)),
                    Meta("gdoc_url", Url(d)),
                    Meta("gdoc_created", RemoteTime(doc.created)),
                    Meta("gdoc_modified", RemoteTime(doc.modified)) >>
        prepended == <<Dash3>> \o block \o <<Dash3, Blank>> \o markdown_content
        post == FmLoads(markdown_content)
    IN  IF StartsWithDashes(markdown_content) /\ ~post.raised
        THEN FmDumps([post.meta EXCEPT !["title"] = Title(doc.title),
                                       !["gdoc_url"] = Url(d),
                                       !["gdoc_created"] = RemoteTime(doc.created),
                                       !["gdoc_modified"] = RemoteTime(doc.modified)],
                     post.body)
        ELSE prepended

export_gdoc_to_markdown(fs, gd, pg, d, cr, env, f) ==
    IF ~GdocReadable(gd, d, cr, env)
    THEN Eff(fs, gd, pg, TRUE, 1, TRUE, {}, {})
    ELSE Eff([fs EXCEPT ![f] = gdoc_frontmatter_content(gd[d], d)],
             gd, pg, FALSE, 0, FALSE, {}, {})

(***************************************************************************)
(* Confluence.  The body of a page is kept as the Markdown text that       *)
(* markdown_to_confluence_storage was given; h2t is the Markdown that      *)
(* html2text makes of the page on export.                                  *)
(***************************************************************************)
PageReadable(pg, p) == p \in PageIds /\ pg[p].exists

import_markdown_to_confluence(fs, gd, pg, f, p, env, t) ==
    LET content_for_confluence == strip_frontmatter_for_remote_sync(fs[f])
        w == {Write("conf", p, check_confluence_frozen_status(pg, p, env))}
        u == {Upload(fs[f], content_for_confluence)}
    IN  IF ~PageReadable(pg, p)
        THEN Eff(fs, gd, pg, TRUE, 1, TRUE, {}, {})
        ELSE IF ~env.wr
        THEN Eff(fs, gd, pg, TRUE, 1, TRUE, w, u)
        ELSE Eff(update_frontmatter_confluence_url(fs, f, p, t), gd,
                 [pg EXCEPT ![p].body = content_for_confluence],
                 FALSE, 0, FALSE, w, u)

NewPage(body) == [exists |-> TRUE, body |-> body, frozen |-> FALSE]

create_confluence_page(fs, gd, pg, f, env, t) ==
    LET content_for_confluence == strip_frontmatter_for_remote_sync(fs[f])
        page_id == FreePage(pg)
        u == {Upload(fs[f], content_for_confluence)}
    IN  IF ~env.wr
        THEN Eff(fs, gd, pg, TRUE, 1, TRUE, {}, u)
        ELSE Eff(update_frontmatter_confluence_url(fs, f, page_id, t), gd,
                 [pg EXCEPT ![page_id] = NewPage(content_for_confluence)],
                 FALSE, 0, FALSE, {}, u)

\* export_confluence_to_markdown, the text written to output_path
confluence_frontmatter_content(markdown_content, p) ==
    LET prepended == <<Dash3, Meta("confluence_url", Url(p)), Dash3, Blank>>
                     \o markdown_content
        post == FmLoads(markdown_content)
    IN  IF StartsWithDashes(markdown_content) /\ ~post.raised
        THEN FmDumps([post.meta EXCEPT !["confluence_url"] = Url(p)], post.body)
        ELSE prepended

export_confluence_to_markdown(fs, gd, pg, p, env, f, h2t) ==
    IF ~PageReadable(pg, p)
    THEN Eff(fs, gd, pg, TRUE, 1, TRUE, {}, {})
    ELSE Eff([fs EXCEPT ![f] = confluence_frontmatter_content(h2t, p)],
             gd, pg, FALSE, 0, FALSE, {}, {})

(***************************************************************************)
(* The diff engine.                                                        *)
(***************************************************************************)
\* str.splitlines(keepends=True): every line with its terminator; a last
\* line without one is there only when it is not empty
splitlines(content) ==
    LET n == Len(content)
        whole == [i \in 1..(n - 1) |-> <<content[i], TRUE>>]
    IN  IF content[n] = Blank THEN whole ELSE whole \o << <<content[n], FALSE>> >>

\* show_diff: TRUE when the unified diff has lines, FALSE for "No differences
\* found": difflib gives no lines exactly for equal lists of lines
show_diff(content1, content2) == splitlines(content1) # splitlines(content2)

\* diff_markdown_to_gdoc: "frozen" (warning, no diff), "error", "same", "differs"
diff_markdown_to_gdoc(fs, gd, f, d, cr, env) ==
    IF check_gdoc_frozen_status(gd, d, cr, env) THEN "frozen"
    ELSE IF ~GdocReadable(gd, d, cr, env) THEN "error"
    ELSE IF show_diff(gd[d].body, strip_frontmatter_for_remote_sync(fs[f]))
         THEN "differs" ELSE "same"

\* diff_gdoc_to_markdown: the whole local file against the export
diff_gdoc_to_markdown(fs, gd, f, d, cr, env) ==
    IF ~GdocReadable(gd, d, cr, env) THEN "error"
    ELSE IF show_diff(fs[f], gd[d].body) THEN "differs" ELSE "same"

\* diff_markdown_to_confluence and diff_confluence_to_markdown; the export
\* without output_path is stripped
diff_markdown_to_confluence(fs, pg, f, p, env, h2t) ==
    IF check_confluence_frozen_status(pg, p, env) THEN "frozen"
    ELSE IF ~PageReadable(pg, p) THEN "error"
    ELSE IF show_diff(Strip(h2t), strip_frontmatter_for_remote_sync(fs[f]))
         THEN "differs" ELSE "same"

diff_confluence_to_markdown(fs, pg, f, p, env, h2t) ==
    IF check_confluence_frozen_status(pg, p, env) THEN "frozen"
    ELSE IF ~PageReadable(pg, p) THEN "error"
    ELSE IF show_diff(fs[f], Strip(h2t)) THEN "differs" ELSE "same"

(***************************************************************************)
(* Standard input: the answers the user types, in order.  "y" and "n" are  *)
(* yes and no in any spelling, "" is an empty line, "1", "2", "3" are      *)
(* numbers, "x" is any other text, "^C" is a keyboard interrupt; reading   *)
(* past the end is end of input ("eof").                                   *)
(***************************************************************************)
Answer(inp) == IF inp = <<>> THEN "eof" ELSE Head(inp)
Rest(inp)   == IF inp = <<>> THEN <<>> ELSE Tail(inp)

\* one prompt that was issued: the gate and the answer it got
Prompt(gate, ans) == [gate |-> gate, ans |-> ans]

\* check_existing_gdoc_confirmation: whether to proceed, and the prompt issued
\* (destination_doc_id 0 is None)
check_existing_gdoc_confirmation(fs, f, force, destination_doc_id, inp) ==
    LET metadata == extract_frontmatter_metadata(fs[f])
        existing_doc_id == extract_doc_id(metadata["gdoc_url"])
    IN  IF Has(metadata, "gdoc_url") /\ ~force
        THEN IF destination_doc_id # 0 /\ existing_doc_id = destination_doc_id
             THEN [proceed |-> TRUE, prompts |-> <<>>, inp |-> inp]
             ELSE [proceed |-> Answer(inp) = "y",
                   prompts |-> <<Prompt("existing", Answer(inp))>>,
                   inp     |-> Rest(inp)]
        ELSE [proceed |-> TRUE, prompts |-> <<>>, inp |-> inp]

(***************************************************************************)
(* Batch documents.                                                        *)
(***************************************************************************)
\* the line "# {heading_title}"
Heading(n) == Line("heading", "", <<n>>)

\* generate_batch_id(title): a slug of the title, which is not the title
generate_batch_id(title) == title + 100

\* metadata.get('title'), else the title made from the file name
heading_title_of(fs, f) ==
    LET metadata == extract_frontmatter_metadata(fs[f])
    IN  IF Has(metadata, "title") THEN metadata["title"][1] ELSE Stem(f)

\* the batch entry of the frontmatter, as one value
BatchInfo(title, doc_id, heading_title, t) ==
    << generate_batch_id(title), title, doc_id, heading_title, t, t >>
BatchDocOf(b) == b[3]

\* combined_content: every file's stripped content followed by "\n\n"
RECURSIVE CombinedFrom(_, _, _)
CombinedFrom(fs, batch, i) ==
    IF i > Len(batch) THEN <<Blank>>
    ELSE strip_frontmatter_for_remote_sync(fs[batch[i]]) \o <<Blank>>
         \o CombinedFrom(fs, batch, i + 1)

\* the frontmatter write-back loop of create_batch_document_simple
RECURSIVE BatchRecords(_, _, _, _, _, _)
BatchRecords(fs, batch, i, title, doc_id, t) ==
    IF i > Len(batch) THEN fs
    ELSE LET f == batch[i]
             info == BatchInfo(title, doc_id, heading_title_of(fs, f), t)
         IN  BatchRecords([fs EXCEPT ![f] =
                              update_frontmatter_metadata(fs[f], << <<"batch", info>> >>)],
                          batch, i + 1, title, doc_id, t)

\* a variant of create_batch_document_simple whose write-back loop stops after
\* the first file of the batch
create_batch_document_simple_first_only(fs, gd, pg, batch, title, env, t) ==
    LET content_for_gdoc == strip_frontmatter_for_remote_sync(CombinedFrom(fs, batch, 1))
        doc_id == FreeDoc(gd)
        u == { Upload(fs[batch[i]], strip_frontmatter_for_remote_sync(fs[batch[i]]))
               : i \in 1..Len(batch) }
    IN  IF ~env.gcfg
        THEN Eff(fs, gd, pg, TRUE, 1, TRUE, {}, {})
        ELSE IF ~env.wr
        THEN Eff(fs, gd, pg, TRUE, 1, TRUE, {}, u)
        ELSE Eff(BatchRecords(fs, <<batch[1]>>, 1, title, doc_id, t),
                 [gd EXCEPT ![doc_id] = NewDoc(content_for_gdoc, title, t)],
                 pg, FALSE, 0, FALSE, {}, u)

create_batch_document_simple(fs, gd, pg, batch, title, env, t) ==
    LET combined_content == CombinedFrom(fs, batch, 1)
        \* create_new_gdoc_from_markdown_with_title strips the combined text
        content_for_gdoc == strip_frontmatter_for_remote_sync(combined_content)
        doc_id == FreeDoc(gd)
        u == { Upload(fs[batch[i]], strip_frontmatter_for_remote_sync(fs[batch[i]]))
               : i \in 1..Len(batch) }
    IN  IF ~env.gcfg
        THEN Eff(fs, gd, pg, TRUE, 1, TRUE, {}, {})
        ELSE IF ~env.wr
        THEN Eff(fs, gd, pg, TRUE, 1, TRUE, {}, u)
        ELSE Eff(BatchRecords(fs, batch, 1, title, doc_id, t),
                 [gd EXCEPT ![doc_id] = NewDoc(content_for_gdoc, title, t)],
                 pg, FALSE, 0, FALSE, {}, u)

\* the files whose frontmatter has a batch entry
InBatch(fs, f) == Has(extract_frontmatter_metadata(fs[f]), "batch")
BatchOf(fs, f) == extract_frontmatter_metadata(fs[f])["batch"]

\* x.lower() in y.lower() for two different texts of more than three
\* characters: title 6 is title 5 with more text after it
Within(x, y) == <<x, y>> \in {<<5, 6>>}

\* update_batch_by_name, first pass: the identifier is a batch id, a document
\* id or a batch title, or is part of a batch title (ident is <<kind, n>>)
MatchesBatch(b, ident) ==
    \/ ident[1] = "gdoc" /\ ident[2] = BatchDocOf(b)
    \/ ident[1] = "name" /\ ident[2] \in {b[1], b[2]}
    \/ ident[1] = "name" /\ Within(ident[2], b[2])

\* the sections written into the batch document, in file order
RECURSIVE Sections(_, _)
Sections(fs, fseq) ==
    IF fseq = <<>> THEN <<>>
    ELSE <<Heading(BatchOf(fs, Head(fseq))[4]), Blank>>
         \o strip_frontmatter_for_remote_sync(fs[Head(fseq)])
         \o Sections(fs, Tail(fseq))

FileOrder == <<"a.md", "b.md">>
SubSeqOf(S) == SelectSeq(FileOrder, LAMBDA f : f \in S)

\* the files of S in the order in which os.walk visits them
Walked(env, S) == SelectSeq(env.walk, LAMBDA f : f \in S)

\* update_batch_by_name, second pass: the files of the batch document, sorted
batch_files_of(fs, doc_id) ==
    SubSeqOf({ f \in Files : InBatch(fs, f) /\ BatchDocOf(BatchOf(fs, f)) = doc_id })

\* the section of every file, as uploaded into the batch document
batch_uploads(fs, batch_files) ==
    { Upload(fs[batch_files[i]],
             <<Heading(BatchOf(fs, batch_files[i])[4]), Blank>>
             \o strip_frontmatter_for_remote_sync(fs[batch_files[i]]))
      : i \in 1..Len(batch_files) }

\* a variant of update_batch_write that inserts the sections without clearing
\* the document first
update_batch_write_no_clear(fs, gd, pg, env, t, doc_id, batch_files, w, u) ==
    IF ~env.gcfg
    THEN Eff(fs, gd, pg, TRUE, 1, TRUE, {}, {})
    ELSE IF ~GdocAccepts(gd, doc_id, env)
    THEN Eff(fs, gd, pg, FALSE, 0, TRUE, w, u)
    ELSE Eff(fs, [gd EXCEPT ![doc_id].body = gd[doc_id].body
                                             \o Str(Sections(fs, batch_files)),
                            ![doc_id].modified = t],
             pg, FALSE, 0, FALSE, w, u)

\* update_batch_by_name, the rewrite of the document with write w and uploads u
update_batch_write(fs, gd, pg, env, t, doc_id, batch_files, w, u) ==
    IF ~env.gcfg
    THEN Eff(fs, gd, pg, TRUE, 1, TRUE, {}, {})
    ELSE IF ~GdocAccepts(gd, doc_id, env)
    THEN Eff(fs, gd, pg, FALSE, 0, TRUE, w, u)
    ELSE Eff(fs, [gd EXCEPT ![doc_id].body = Str(Sections(fs, batch_files)),
                            ![doc_id].modified = t],
             pg, FALSE, 0, FALSE, w, u)

\* update_batch_by_name for the batch document doc_id
update_batch_document(fs, gd, pg, env, t, doc_id, batch_files) ==
    update_batch_write(fs, gd, pg, env, t, doc_id, batch_files,
                       {Write("gdoc", doc_id, check_gdoc_frozen_status(gd, doc_id, TRUE, env))},
                       batch_uploads(fs, batch_files))

\* update_batch_by_name for the document of the first matching file
update_batch_of(fs, gd, pg, env, t, doc_id) ==
    update_batch_document(fs, gd, pg, env, t, doc_id, batch_files_of(fs, doc_id))

\* update_batch_by_name, given the files whose batch entry matches
update_batch_matching(fs, gd, pg, env, t, matching) ==
    IF matching = {}
    THEN Eff(fs, gd, pg, FALSE, 0, TRUE, {}, {})
    ELSE update_batch_of(fs, gd, pg, env, t,
                         BatchDocOf(BatchOf(fs, Head(Walked(env, matching)))))

update_batch_by_name(fs, gd, pg, ident, env, t) ==
    update_batch_matching(fs, gd, pg, env, t,
        { f \in Files : InBatch(fs, f) /\ MatchesBatch(BatchOf(fs, f), ident) })

\* update_batch_by_name, one member file: the temporary document
\* 'temp_batch_update_{i}' when the processing of the file ends.  Its creation
\* needs a Drive that accepts writes; it is deleted after the last call on the
\* batch document, and a call that raises skips the deletion.  The local file
\* '{file_path}.temp_batch_update' is removed in the finally clause.
member_leftovers(gd, env, doc_id, i) ==
    IF ~env.wr THEN {}
    ELSE IF ~GdocAccepts(gd, doc_id, env) THEN {<<"temp_batch_update", i>>}
    ELSE {}

\* update_batch_by_name for the batch document doc_id: the temporary
\* artifacts that exist when it returns
batch_leftovers(gd, env, doc_id, batch_files) ==
    IF ~env.gcfg THEN {}
    ELSE UNION { member_leftovers(gd, env, doc_id, i - 1) : i \in 1..Len(batch_files) }

\* update_batch_by_name: the temporary artifacts that exist when it returns
update_batch_leftovers(fs, gd, ident, env) ==
    LET matching == { f \in Files : InBatch(fs, f) /\ MatchesBatch(BatchOf(fs, f), ident) }
    IN  IF matching = {} THEN {}
        ELSE batch_leftovers(gd, env, BatchDocOf(BatchOf(fs, Head(Walked(env, matching)))),
                             batch_files_of(fs, BatchDocOf(BatchOf(fs, Head(Walked(env, matching))))))

\* the H1 texts in which heading_title.lower() occurs
Holding(heading_title) == {heading_title} \cup { m \in {5, 6, 11, 12} : Within(heading_title, m) }

\* the index of the first H1 paragraph from position i on whose text is one
\* of the titles, 0 if there is none
FirstHeading(body, i, titles) ==
    IF \E j \in i..Len(body) : body[j].t = "heading" /\ body[j].v[1] \in titles
    THEN CHOOSE j \in i..Len(body) :
            /\ body[j].t = "heading" /\ body[j].v[1] \in titles
            /\ \A h \in i..(j - 1) : ~(body[h].t = "heading" /\ body[h].v[1] \in titles)
    ELSE 0

\* the text from the end of the heading paragraph to heading_end (0: the
\* end of the document), stripped
section_content(body, heading_start, heading_end) ==
    Strip(SubSeq(body, heading_start + 1,
                 IF heading_end = 0 THEN Len(body) ELSE heading_end - 1))

\* find_heading_section_in_gdoc, given the paragraph of the heading found
\* (0: none, the result is the empty string): the section ends at the next
\* H1 whose startIndex is greater than the endIndex of the heading, which
\* the paragraph right after the heading is not
section_after(body, heading_start) ==
    IF heading_start = 0 THEN <<Blank>>
    ELSE section_content(body, heading_start,
                         FirstFrom(body, heading_start + 2, {"heading"}))

find_heading_section_in_gdoc(body, heading_title) ==
    section_after(body, FirstHeading(body, 1, Holding(heading_title)))

\* diff_batch_against_gdoc, what is printed for one file given the section
\* found for it: an empty section counts as a heading that was not found
section_verdict(content_for_gdoc, heading_section) ==
    IF heading_section # <<Blank>>
    THEN IF Strip(content_for_gdoc) # Strip(heading_section)
         THEN "differences" ELSE "no differences"
    ELSE "missing section"

\* diff_batch_against_gdoc, the verdict printed for every file of the batch
batch_verdicts(fs, gd, d, env) ==
    IF ~env.gcfg \/ ~GdocReadable(gd, d, TRUE, env) THEN {}
    ELSE { <<f, section_verdict(strip_frontmatter_for_remote_sync(fs[f]),
                                find_heading_section_in_gdoc(gd[d].body, BatchOf(fs, f)[4]))>>
           : f \in { g \in Files : InBatch(fs, g) /\ BatchDocOf(BatchOf(fs, g)) = d } }

\* diff_batch_against_gdoc: reads only; an inaccessible document is reported
\* and the function returns
diff_batch_against_gdoc(fs, gd, pg, d, env) ==
    LET batch_files == { f \in Files : InBatch(fs, f) /\ BatchDocOf(BatchOf(fs, f)) = d }
    IN  IF batch_files = {}
        THEN Eff(fs, gd, pg, FALSE, 0, FALSE, {}, {})
        ELSE IF ~env.gcfg
        THEN Eff(fs, gd, pg, TRUE, 1, TRUE, {}, {})
        ELSE IF ~GdocReadable(gd, d, TRUE, env)
        THEN Eff(fs, gd, pg, FALSE, 0, TRUE, {}, {})
        ELSE Eff(fs, gd, pg, FALSE, 0, FALSE, {}, {})

(***************************************************************************)
(* The command line.  A source or destination argument is a Markdown path, *)
(* a Google Doc URL or id, a Confluence page (id 0: a Confluence URL with  *)
(* no page id in it), a name (a batch title or batch id), or missing.      *)
(***************************************************************************)
Arg(kind, f, id) == [kind |-> kind, f |-> f, id |-> id]
NoArg   == Arg("none", "", 0)
Md(f)   == Arg("md", f, 0)
Gdoc(d) == Arg("gdoc", "", d)
Conf(p) == Arg("conf", "", p)
Name(n) == Arg("name", "", n)

\* op is the flag that selects the operation ("sync" when there is none);
\* batch is the list of --batch files; path is what the list command's path
\* is: "bad" (no file or directory), "empty" (a directory without Markdown
\* files), "ok"
Args(op, source, destination, force, batch, path) ==
    [op |-> op, source |-> source, destination |-> destination, force |-> force,
     batch |-> batch, path |-> path]

\* the result of one invocation: the world after it, the exit code, whether
\* an error was reported, the content writes issued and the texts uploaded,
\* the prompts issued with their answers, the auto-detected candidates and
\* the destination selected from them, and the result of a diff
Out(fs, gd, pg, code, err, writes, uploads, prompts, det, diff) ==
    [fs |-> fs, gd |-> gd, pg |-> pg, code |-> code, err |-> err,
     writes |-> writes, uploads |-> uploads, prompts |-> prompts,
     det |-> det, diff |-> diff, verdicts |-> {}, temps |-> {}]

\* what destination detection found: whether it ran, the candidates, the
\* destinations reported frozen, the destination selected
Det(ran, cands, froz, sel) == [ran |-> ran, cands |-> cands, froz |-> froz, sel |-> sel]
NoDet == Det(FALSE, {}, {}, Arg("none", "", 0))

\* sys.exit(1) after an error message, nothing done
Exit1(fs, gd, pg, prompts, det) ==
    Out(fs, gd, pg, 1, TRUE, {}, {}, prompts, det, "none")
\* sys.exit(0) on a declined confirmation
Cancel(fs, gd, pg, prompts, det) ==
    Out(fs, gd, pg, 0, FALSE, {}, {}, prompts, det, "none")
\* an operation ran and main returned or the operation ended the process
Ran(e, prompts, det) ==
    Out(e.fs, e.gd, e.pg, e.code, e.err, e.writes, e.uploads, prompts, det, "none")
\* a diff ran: an error message of a diff function ends the process with 1
Diffed(fs, gd, pg, d) ==
    Out(fs, gd, pg, IF d = "error" THEN 1 ELSE 0, d = "error", {}, {}, <<>>, NoDet, d)

\* list_markdown_files under main's "except SystemExit: return"
main_list(fs, gd, pg, a) ==
    IF a.path = "bad"
    THEN \* sys.exit(1) inside list_markdown_files is swallowed
         Out(fs, gd, pg, 0, TRUE, {}, {}, <<>>, NoDet, "none")
    ELSE IF a.path = "empty"
    THEN Out(fs, gd, pg, 0, FALSE, {}, {}, <<>>, NoDet, "none")
    ELSE \* the name args is not defined in list_markdown_files: NameError
         Exit1(fs, gd, pg, <<>>, NoDet)

\* main, --batch: every file names the same batch document
batch_existing(fs, batch) ==
    Cardinality({ BatchDocOf(BatchOf(fs, batch[i])) :
                    i \in { j \in 1..Len(batch) : InBatch(fs, batch[j]) } }) = 1

\* main, --batch: a file is linked to a Google Doc of its own
batch_individual(fs, batch) ==
    \E i \in 1..Len(batch) :
        /\ Has(extract_frontmatter_metadata(fs[batch[i]]), "gdoc_url")
        /\ ~Has(extract_frontmatter_metadata(fs[batch[i]]), "batch")

\* main, --batch: the confirmation asked for, if any
batch_gate(fs, a) ==
    IF a.force THEN "none"
    ELSE IF batch_existing(fs, a.batch) THEN "batch_existing"
    ELSE IF batch_individual(fs, a.batch) THEN "batch_individual"
    ELSE "none"

\* main, --batch, after the gate with the prompts it issued
main_batch_gated(fs, gd, pg, a, inp, env, t, gate, prompts) ==
    IF gate # "none" /\ Answer(inp) # "y"
    THEN Cancel(fs, gd, pg, prompts, NoDet)
    ELSE Ran(create_batch_document_simple(fs, gd, pg, a.batch,
                                          heading_title_of(fs, a.batch[1]), env, t),
             prompts, NoDet)

\* main, --batch: the prompt of the gate
main_batch_gate(fs, gd, pg, a, inp, env, t, gate) ==
    main_batch_gated(fs, gd, pg, a, inp, env, t, gate,
                     IF gate = "none" THEN <<>> ELSE <<Prompt(gate, Answer(inp))>>)

\* main, --batch: the two confirmation gates, then the batch document
main_batch(fs, gd, pg, a, inp, env, t) ==
    main_batch_gate(fs, gd, pg, a, inp, env, t, batch_gate(fs, a))

\* lock_document and unlock_document: the content restriction is set when
\* the Drive API accepts the update of the document's metadata
set_lock(fs, gd, pg, d, env, readOnly) ==
    IF env.wr /\ d \in DocIds /\ gd[d].exists
    THEN Eff(fs, [gd EXCEPT ![d].frozen = readOnly], pg, FALSE, 0, FALSE, {}, {})
    ELSE Eff(fs, gd, pg, TRUE, 1, TRUE, {}, {})

\* check_lock_status, list_comments, list_revisions: read the document
read_document(fs, gd, pg, d, env) ==
    IF GdocReadable(gd, d, TRUE, env)
    THEN Eff(fs, gd, pg, FALSE, 0, FALSE, {}, {})
    ELSE Eff(fs, gd, pg, TRUE, 1, TRUE, {}, {})

LockOps == {"lock", "unlock", "lock_status"}
ReadOps == {"list_comments", "list_revisions"}

\* main, destination detection: the ids the frontmatter URLs name, 0 for a
\* URL that is absent or names none
frontmatter_ids(frontmatter) ==
    [doc_id  |-> IF Has(frontmatter, "gdoc_url")
                 THEN extract_doc_id_from_url(frontmatter["gdoc_url"]) ELSE 0,
     page_id |-> IF Has(frontmatter, "confluence_url")
                 THEN parse_confluence_destination(frontmatter["confluence_url"]) ELSE 0]

\* available_destinations, in the order main appends them, and
\* frozen_destinations, from what the frozen checks returned
destinations(ids, gdoc_frozen, confluence_frozen) ==
    [available |-> (IF ids.doc_id # 0 /\ ~gdoc_frozen THEN <<Gdoc(ids.doc_id)>> ELSE <<>>)
                   \o (IF ids.page_id # 0 /\ ~confluence_frozen
                       THEN <<Conf(ids.page_id)>> ELSE <<>>),
     frozen    |-> (IF ids.doc_id # 0 /\ gdoc_frozen THEN {Gdoc(ids.doc_id)} ELSE {})
                   \cup (IF ids.page_id # 0 /\ confluence_frozen
                         THEN {Conf(ids.page_id)} ELSE {})]

\* the frozen checks main makes of the destinations the frontmatter names
checked_destinations(gd, pg, cr, env, ids) ==
    destinations(ids, check_gdoc_frozen_status(gd, ids.doc_id, cr, env),
                 check_confluence_frozen_status(pg, ids.page_id, env))

\* main, the selection among available_destinations: none is an error, one
\* is selected, more are offered to the user
select_destination(available_destinations, cands, froz, inp) ==
    IF available_destinations = <<>>
    THEN [go |-> FALSE, dest |-> NoArg, prompts |-> <<>>, cands |-> cands,
          froz |-> froz, inp |-> inp]
    ELSE IF Len(available_destinations) = 1
    THEN [go |-> TRUE, dest |-> available_destinations[1], prompts |-> <<>>,
          cands |-> cands, froz |-> froz, inp |-> inp]
    ELSE [go      |-> Answer(inp) \in {"1", "2"},
          dest    |-> IF Answer(inp) = "1" THEN available_destinations[1]
                      ELSE IF Answer(inp) = "2" THEN available_destinations[2]
                      ELSE NoArg,
          prompts |-> <<Prompt("choose", Answer(inp))>>,
          cands   |-> cands,
          froz    |-> froz,
          inp     |-> Rest(inp)]

\* the candidates as a set, with the selection among them
selected(found, inp) ==
    select_destination(found.available,
                       { found.available[i] : i \in 1..Len(found.available) },
                       found.frozen, inp)

\* a variant of detect_destination without the frozen checks: a URL with an
\* id is a candidate whatever the platform reports
detect_destination_unchecked(fs, gd, pg, f, cr, env, inp) ==
    selected(destinations(frontmatter_ids(extract_frontmatter_metadata(fs[f])),
                          FALSE, FALSE), inp)

\* main, intelligent destination detection: the candidates in the order of
\* available_destinations, the destination selected, and whether main goes on
detect_destination(fs, gd, pg, f, cr, env, inp) ==
    selected(checked_destinations(gd, pg, cr, env,
                                  frontmatter_ids(extract_frontmatter_metadata(fs[f]))),
             inp)

\* main, destination mismatch check: "go", "cancel" (sys.exit(0)) or "crash"
\* (end of input is not caught), and the prompt issued
mismatch_guard(fs, f, dest, inp) ==
    LET frontmatter == extract_frontmatter_metadata(fs[f])
        frontmatter_doc_id == extract_doc_id_from_url(frontmatter["gdoc_url"])
        dest_doc_id == dest.id
        response == Answer(inp)
    IN  IF Has(frontmatter, "gdoc_url") /\ frontmatter_doc_id # 0 /\ dest_doc_id # 0
           /\ frontmatter_doc_id # dest_doc_id
        THEN [res     |-> IF response = "y" THEN "go"
                          ELSE IF response = "eof" THEN "crash" ELSE "cancel",
              prompts |-> <<Prompt("mismatch", response)>>,
              inp     |-> Rest(inp)]
        ELSE [res |-> "go", prompts |-> <<>>, inp |-> inp]

\* main, the types of the source and of the destination
source_is_gdoc(a)       == a.source.kind = "gdoc"
source_is_confluence(a) == a.source.kind = "conf"
source_is_markdown(a)   == a.source.kind \in {"md", "name"} /\ a.op # "batch_update"
dest_is_gdoc(a)         == a.destination.kind = "gdoc"
dest_is_confluence(a)   == a.destination.kind = "conf"
dest_is_markdown(a)     == a.destination.kind \in {"md", "name"}

\* main: creds = get_credentials() is reached
NeedsCreds(a) ==
    source_is_gdoc(a) \/ dest_is_gdoc(a) \/ a.op \in {"create"} \cup LockOps \cup ReadOps

\* main: confluence = get_confluence_client(...) is reached
NeedsConfluence(a) ==
    \/ source_is_confluence(a) \/ dest_is_confluence(a)
    \/ a.op \in {"create_confluence", "diff"} \/ source_is_markdown(a)

\* main: the destination is looked up in the frontmatter
Detecting(a) ==
    /\ source_is_markdown(a) /\ a.destination.kind = "none"
    /\ a.op \notin {"create", "create_confluence", "list_batch"}

\* main, --diff
main_diff(fs, gd, pg, a, env, h2t) ==
    IF source_is_markdown(a) /\ dest_is_gdoc(a)
    THEN Diffed(fs, gd, pg, diff_markdown_to_gdoc(fs, gd, a.source.f, a.destination.id,
                                                  NeedsCreds(a), env))
    ELSE IF source_is_gdoc(a) /\ dest_is_markdown(a)
    THEN Diffed(fs, gd, pg, diff_gdoc_to_markdown(fs, gd, a.destination.f, a.source.id,
                                                  NeedsCreds(a), env))
    ELSE IF source_is_markdown(a) /\ dest_is_confluence(a)
    THEN Diffed(fs, gd, pg, diff_markdown_to_confluence(fs, pg, a.source.f,
                                                        a.destination.id, env, h2t))
    ELSE IF source_is_confluence(a) /\ dest_is_markdown(a)
    THEN Diffed(fs, gd, pg, diff_confluence_to_markdown(fs, pg, a.destination.f,
                                                        a.source.id, env, h2t))
    ELSE Exit1(fs, gd, pg, <<>>, NoDet)

\* main, Markdown -> Google Doc: the confirmation of an existing link, then
\* the creation or the update of the document
main_to_gdoc(fs, gd, pg, a, env, t, destination, link, p2, det) ==
    IF ~link.proceed
    THEN Cancel(fs, gd, pg, p2 \o link.prompts, det)
    ELSE IF a.op = "create"
    THEN Ran(create_new_gdoc_from_markdown(fs, gd, pg, a.source.f, NeedsCreds(a), env, t),
             p2 \o link.prompts, det)
    ELSE Ran(import_markdown_to_gdoc(fs, gd, pg, a.source.f, destination.id,
                                     NeedsCreds(a), env, t),
             p2 \o link.prompts, det)

\* main, the operations in the order main tests for them
main_dispatch(fs, gd, pg, a, inp, env, t, h2t, destination, p2, det) ==
    IF a.op \in LockOps \cup ReadOps
    THEN IF ~source_is_gdoc(a)
         THEN Exit1(fs, gd, pg, p2, det)
         ELSE IF a.op = "lock"
         THEN Ran(set_lock(fs, gd, pg, a.source.id, env, TRUE), p2, det)
         ELSE IF a.op = "unlock"
         THEN Ran(set_lock(fs, gd, pg, a.source.id, env, FALSE), p2, det)
         ELSE Ran(read_document(fs, gd, pg, a.source.id, env), p2, det)
    ELSE IF a.op = "diff_batch"
    THEN IF ~source_is_gdoc(a)
         THEN Exit1(fs, gd, pg, p2, det)
         ELSE [Ran(diff_batch_against_gdoc(fs, gd, pg, a.source.id, env), p2, det)
                  EXCEPT !.verdicts = batch_verdicts(fs, gd, a.source.id, env)]
    ELSE IF a.op = "batch_update"
    THEN [Ran(update_batch_by_name(fs, gd, pg, <<a.source.kind, a.source.id>>, env, t),
              p2, det)
             EXCEPT !.temps = update_batch_leftovers(fs, gd, <<a.source.kind, a.source.id>>,
                                                     env)]
    ELSE IF source_is_confluence(a)
    THEN IF a.destination.kind = "none" \/ parse_confluence_destination(Url(a.source.id)) = 0
         THEN Exit1(fs, gd, pg, p2, det)
         ELSE Ran(export_confluence_to_markdown(fs, gd, pg, a.source.id, env,
                                                a.destination.f, h2t), p2, det)
    ELSE IF source_is_gdoc(a)
    THEN IF a.destination.kind = "none"
         THEN Exit1(fs, gd, pg, p2, det)
         ELSE Ran(export_gdoc_to_markdown(fs, gd, pg, a.source.id, NeedsCreds(a), env,
                                          a.destination.f), p2, det)
    ELSE IF source_is_markdown(a) /\ (destination.kind = "conf" \/ a.op = "create_confluence")
    THEN IF a.op = "create_confluence"
         THEN Ran(create_confluence_page(fs, gd, pg, a.source.f, env, t), p2, det)
         ELSE IF destination.id = 0
         THEN Exit1(fs, gd, pg, p2, det)
         ELSE Ran(import_markdown_to_confluence(fs, gd, pg, a.source.f, destination.id,
                                                env, t), p2, det)
    ELSE IF source_is_markdown(a) /\ (destination.kind = "gdoc" \/ a.op = "create")
    THEN main_to_gdoc(fs, gd, pg, a, env, t, destination,
                      check_existing_gdoc_confirmation(
                          fs, a.source.f, a.force,
                          IF a.op = "create" THEN 0 ELSE destination.id, inp),
                      p2, det)
    ELSE Exit1(fs, gd, pg, p2, det)

\* main, after the destination mismatch check with result guard
main_guarded(fs, gd, pg, a, env, t, h2t, destination, guard, p1, det) ==
    IF guard.res = "cancel"
    THEN Cancel(fs, gd, pg, p1 \o guard.prompts, det)
    ELSE IF guard.res = "crash"
    THEN Exit1(fs, gd, pg, p1 \o guard.prompts, det)
    ELSE main_dispatch(fs, gd, pg, a, guard.inp, env, t, h2t, destination,
                       p1 \o guard.prompts, det)

\* main, after destination detection with result found
main_detected(fs, gd, pg, a, env, t, h2t, found, det) ==
    IF Detecting(a) /\ ~found.go
    THEN Exit1(fs, gd, pg, found.prompts, det)
    ELSE main_guarded(fs, gd, pg, a, env, t, h2t, found.dest,
                      IF source_is_markdown(a) /\ found.dest.kind = "gdoc"
                         /\ a.op # "list_batch"
                      THEN mismatch_guard(fs, a.source.f, found.dest, found.inp)
                      ELSE [res |-> "go", prompts |-> <<>>, inp |-> found.inp],
                      found.prompts, det)

\* what destination detection found, as the record main reports
DetOf(a, found) ==
    IF Detecting(a) THEN Det(TRUE, found.cands, found.froz, found.dest) ELSE NoDet

\* main, from the detection of the destination on
main_detect(fs, gd, pg, a, env, t, h2t, found) ==
    main_detected(fs, gd, pg, a, env, t, h2t, found, DetOf(a, found))

\* main after the list, --create-empty and --batch commands
main_sync(fs, gd, pg, a, inp, env, t, h2t) ==
    IF a.source.kind = "none" /\ a.op \notin {"list_batch", "batch_update"}
    THEN Exit1(fs, gd, pg, <<>>, NoDet)
    ELSE IF (NeedsCreds(a) /\ ~env.gcfg) \/ (NeedsConfluence(a) /\ ~env.ccfg)
    THEN Exit1(fs, gd, pg, <<>>, NoDet)
    ELSE IF a.op = "diff"
    THEN main_diff(fs, gd, pg, a, env, h2t)
    ELSE main_detect(fs, gd, pg, a, env, t, h2t,
                     IF Detecting(a)
                     THEN detect_destination(fs, gd, pg, a.source.f, NeedsCreds(a), env, inp)
                     ELSE [go |-> TRUE, dest |-> a.destination, prompts |-> <<>>,
                           cands |-> {}, froz |-> {}, inp |-> inp])

main(fs, gd, pg, a, inp, env, t, h2t) ==
    IF a.op = "list" THEN main_list(fs, gd, pg, a)
    ELSE IF a.op = "batch" THEN main_batch(fs, gd, pg, a, inp, env, t)
    ELSE main_sync(fs, gd, pg, a, inp, env, t, h2t)

(***************************************************************************)
(* The configuration mdsync runs in: whether Google credentials and        *)
(* Confluence credentials are configured, whether application default      *)
(* credentials exist, and whether the platforms accept writes.             *)
(***************************************************************************)
Env(gcfg, ccfg, adc, wr, walk) ==
    [gcfg |-> gcfg, ccfg |-> ccfg, adc |-> adc, wr |-> wr, walk |-> walk]
Envs == { Env(TRUE, TRUE, TRUE, TRUE, FileOrder),   Env(TRUE, TRUE, FALSE, TRUE, FileOrder),
          Env(FALSE, FALSE, FALSE, TRUE, FileOrder), Env(TRUE, TRUE, TRUE, FALSE, FileOrder) }

\* what is typed on standard input at a confirmation and at a choice
YesNoInputs  == { <<>>, <<"y">>, <<"n">>, <<"">>, <<"^C">>, <<"y", "y">> }
\* --force or not, with what is typed
Confirmations == { <<FALSE, inp>> : inp \in YesNoInputs } \cup { <<TRUE, <<>>>>, <<TRUE, <<"y">>>> }
ChoiceInputs == { <<>>, <<"1">>, <<"2">>, <<"3">>, <<"x">>, <<"^C">>, <<"y">> }

\* the Markdown that html2text makes of a page whose storage format was made
\* from body: the text, with or without a blank line at the end
H2T(body) == { body, body \o <<Blank>> }

(***************************************************************************)
(* The initial world.                                                      *)
(***************************************************************************)
Fm(block, body) == <<Dash3>> \o block \o <<Dash3>> \o body
InitContents ==
    { <<Text(1)>>,
      <<Text(1), Blank>>,
      <<Blank, Text(1)>>,
      Fm(<<Meta("title", Title(5))>>, <<Blank, Text(1), Blank>>),
      <<Blank>> \o Fm(<<Meta("title", Title(5))>>, <<Text(1)>>),
      <<Dash4, Meta("title", Title(5)), Dash4, Text(1)>>,
      Fm(<<Meta("title", Title(5)), Text(2)>>, <<Text(1)>>),
      Fm(<<Meta("gdoc_created", LocalTime(0)), Meta("gdoc_url", Url(1))>>, <<Text(1)>>),
      Fm(<<Meta("gdoc_url", UrlAlt(1))>>, <<Text(1)>>),
      Fm(<<Meta("confluence_url", Url(1)), Meta("labels", <<7>>)>>, <<Text(1)>>),
      Fm(<<Meta("confluence_url", Url(1)), Meta("gdoc_url", Url(1))>>, <<Text(1)>>),
      Fm(<<Meta("gdoc_url", UrlNoId)>>, <<Text(1)>>) }

NoDoc  == [exists |-> FALSE, body |-> <<Blank>>, frozen |-> FALSE, created |-> 0,
           modified |-> 0, title |-> 0]
NoPage == [exists |-> FALSE, body |-> <<Blank>>, frozen |-> FALSE]

NoArgs == Args("none", NoArg, NoArg, FALSE, <<>>, "")

\* before the first invocation nothing has been done
Idle(fs) ==
    [args |-> NoArgs, pre |-> fs, code |-> 0, err |-> FALSE, writes |-> {},
     uploads |-> {}, prompts |-> <<>>, det |-> NoDet, diff |-> "none", verdicts |-> {},
     temps |-> {}, t |-> 0]

Init ==
    /\ \E c \in InitContents :
          files = [f \in Files |->
                     IF f = "a.md" THEN c
                     ELSE Fm(<<Meta("title", Title(6))>>, <<Blank, Text(2)>>)]
    /\ gdocs = [d \in DocIds |-> IF d = 3 THEN NoDoc ELSE NewDoc(<<Text(9)>>, 8, 0)]
    /\ \E fz \in BOOLEAN :
          pages = [p \in PageIds |->
                     IF p = 3 THEN NoPage
                     ELSE [NewPage(<<Text(9)>>) EXCEPT !.frozen = (fz /\ p = 1)]]
    /\ config \in Envs
    /\ now = 1
    /\ last = Idle(files)

\* the end of an invocation with outcome r: the world main leaves behind and
\* the record of what the invocation did
Finish(a, r) ==
    /\ files' = r.fs
    /\ gdocs' = r.gd
    /\ pages' = r.pg
    /\ last' = [args |-> a, pre |-> files, code |-> r.code, err |-> r.err,
                writes |-> r.writes, uploads |-> r.uploads, prompts |-> r.prompts,
                det |-> r.det, diff |-> r.diff, verdicts |-> r.verdicts,
                temps |-> r.temps, t |-> now]

\* the clock has not stopped the model
Ready == now < MaxClock

\* one invocation of mdsync: main runs to its end
Invoke(a, inp, h2t) ==
    /\ Finish(a, main(files, gdocs, pages, a, inp, config, now, h2t))
    /\ now' = now + 1
    /\ UNCHANGED config

\* the files given on the command line as a source or destination
SyncFiles == {"a.md"}
Batches == { <<"a.md">>, <<"a.md", "b.md">> }

\* mdsync FILE DOC [--force]
SyncToGdoc ==
    \E f \in SyncFiles, d \in DocIds, c \in Confirmations :
        Ready /\ Invoke(Args("sync", Md(f), Gdoc(d), c[1], <<>>, ""), c[2], <<Blank>>)

\* mdsync FILE --create [--force]
CreateGdoc ==
    \E f \in SyncFiles, c \in Confirmations :
        /\ HasFreeDoc(gdocs)
        /\ Ready /\ Invoke(Args("create", Md(f), NoArg, c[1], <<>>, ""), c[2], <<Blank>>)

\* mdsync FILE
AutoSync ==
    \E f \in SyncFiles, inp \in ChoiceInputs :
        Ready /\ Invoke(Args("sync", Md(f), NoArg, FALSE, <<>>, ""), inp, <<Blank>>)

\* mdsync FILE confluence:SPACE/PAGE
SyncToConfluence ==
    \E f \in SyncFiles, p \in PageIds :
        Ready /\ Invoke(Args("sync", Md(f), Conf(p), FALSE, <<>>, ""), <<>>, <<Blank>>)

\* mdsync FILE --create-confluence --space SPACE
CreateConfluence ==
    \E f \in SyncFiles :
        /\ HasFreePage(pages)
        /\ Ready /\ Invoke(Args("create_confluence", Md(f), NoArg, FALSE, <<>>, ""), <<>>, <<Blank>>)

\* mdsync DOC FILE
ExportGdoc ==
    \E f \in SyncFiles, d \in DocIds :
        Ready /\ Invoke(Args("sync", Gdoc(d), Md(f), FALSE, <<>>, ""), <<>>, <<Blank>>)

\* mdsync confluence:SPACE/PAGE FILE
ExportConfluence ==
    \E f \in SyncFiles, p \in PageIds : \E h2t \in H2T(pages[p].body) :
        Ready /\ Invoke(Args("sync", Conf(p), Md(f), FALSE, <<>>, ""), <<>>, h2t)

\* mdsync X Y --diff
Diff ==
    \E f \in SyncFiles :
        \/ \E d \in DocIds :
              \/ Ready /\ Invoke(Args("diff", Md(f), Gdoc(d), FALSE, <<>>, ""), <<>>, <<Blank>>)
              \/ Ready /\ Invoke(Args("diff", Gdoc(d), Md(f), FALSE, <<>>, ""), <<>>, <<Blank>>)
        \/ \E p \in {1, 3} : \E h2t \in H2T(pages[p].body) :
              \/ Ready /\ Invoke(Args("diff", Md(f), Conf(p), FALSE, <<>>, ""), <<>>, h2t)
              \/ Ready /\ Invoke(Args("diff", Conf(p), Md(f), FALSE, <<>>, ""), <<>>, h2t)

\* mdsync --batch FILE... [--force]
Batch ==
    \E batch \in Batches, c \in Confirmations :
        /\ HasFreeDoc(gdocs)
        /\ Ready /\ Invoke(Args("batch", NoArg, NoArg, c[1], batch, ""), c[2], <<Blank>>)

\* mdsync IDENTIFIER --batch-update
BatchUpdate ==
    \E ident \in {Gdoc(1), Gdoc(2), Gdoc(3), Name(5), Name(6), Name(105)} :
        Ready /\ Invoke(Args("batch_update", ident, NoArg, FALSE, <<>>, ""), <<>>, <<Blank>>)

\* mdsync DOC --diff-batch
DiffBatch ==
    \E d \in DocIds :
        Ready /\ Invoke(Args("diff_batch", Gdoc(d), NoArg, FALSE, <<>>, ""), <<>>, <<Blank>>)

\* mdsync list [PATH]
List ==
    \E path \in {"bad", "empty", "ok"} :
        Ready /\ Invoke(Args("list", NoArg, NoArg, FALSE, <<>>, path), <<>>, <<Blank>>)

\* mdsync DOC --lock | --unlock | --lock-status | --list-comments | --list-revisions
DocumentOp ==
    \E op \in LockOps \cup ReadOps, d \in {1, 3} :
        Ready /\ Invoke(Args(op, Gdoc(d), NoArg, FALSE, <<>>, ""), <<>>, <<Blank>>)

\* command lines that name no operation main supports
Invalid ==
    \/ Ready /\ Invoke(NoArgs, <<>>, <<Blank>>)
    \/ \E f \in SyncFiles :
          \/ Ready /\ Invoke(Args("sync", Md(f), Md(f), FALSE, <<>>, ""), <<>>, <<Blank>>)
          \/ Ready /\ Invoke(Args("lock", Md(f), Gdoc(1), FALSE, <<>>, ""), <<>>, <<Blank>>)
    \/ Ready /\ Invoke(Args("diff", Gdoc(1), NoArg, FALSE, <<>>, ""), <<>>, <<Blank>>)

Next ==
    \/ SyncToGdoc \/ CreateGdoc \/ AutoSync \/ SyncToConfluence \/ CreateConfluence
    \/ ExportGdoc \/ ExportConfluence \/ Diff \/ Batch \/ BatchUpdate \/ DiffBatch
    \/ List \/ DocumentOp \/ Invalid

Spec == Init /\ [][Next]_vars

(***************************************************************************)
(* Batches that exist already: files that carry batch records, the batch   *)
(* documents they name, and a directory that os.walk lists in either       *)
(* order.                                                                  *)
(***************************************************************************)
\* a file of a batch: title and batch record in the frontmatter, then the body
Member(title, doc_id, heading_title, body) ==
    Fm(<<Meta("batch", BatchInfo(title, doc_id, heading_title, 0)),
         Meta("title", Title(heading_title))>>, body)

\* a.md and b.md: in one batch (a.md with a body, without one, or with a
\* level-one heading of its own in its body), in two batches of which one
\* title is part of the other, or b.md in no batch
BatchFiles ==
    { [f \in Files |-> IF f = "a.md" THEN Member(5, 1, 5, body)
                       ELSE Member(5, 1, 6, <<Blank, Text(2)>>)] :
        body \in { <<Blank, Text(1)>>, <<>>, <<Blank, Heading(7), Text(1)>> } }
    \cup { [f \in Files |-> IF f = "a.md" THEN Member(6, 1, 5, <<Blank, Text(1)>>)
                            ELSE Member(5, 2, 6, <<Blank, Text(2)>>)],
           [f \in Files |-> IF f = "a.md" THEN Member(5, 1, 5, <<Blank, Text(1)>>)
                            ELSE Fm(<<Meta("title", Title(6))>>, <<Blank, Text(2)>>)] }

\* what the batch documents hold: the sections as an update writes them, an
\* older text, a heading with nothing under it, the sections in another order
BatchBodies ==
    { <<Heading(5), Blank, Text(1), Heading(6), Blank, Text(2)>>,
      <<Text(9)>>,
      <<Heading(5), Heading(6), Text(2)>>,
      <<Heading(5)>>,
      <<Heading(6), Text(2), Heading(5), Text(1)>> }

BatchEnvs ==
    { Env(TRUE, TRUE, TRUE, wr, walk) :
        wr \in BOOLEAN, walk \in {<<"a.md", "b.md">>, <<"b.md", "a.md">>} }

InitBatch ==
    /\ files \in BatchFiles
    /\ \E body \in BatchBodies, fz \in BOOLEAN :
          gdocs = [d \in DocIds |->
                     IF d = 3 THEN NoDoc
                     ELSE [NewDoc(body, 8, 0) EXCEPT !.frozen = (fz /\ d = 1)]]
    /\ pages = [p \in PageIds |-> NoPage]
    /\ config \in BatchEnvs
    /\ now = 1
    /\ last = Idle(files)

NextBatch == Batch \/ BatchUpdate \/ DiffBatch

SpecBatch == InitBatch /\ [][NextBatch]_vars

(***************************************************************************)
(* The frontmatter functions on their own: a.md holds any text of up to    *)
(* MaxLen lines, and each step applies update_frontmatter_metadata to it   *)
(* (the result is the new text of a.md) or strip_frontmatter_for_remote_   *)
(* sync (the text stays); last holds the call and its result.              *)
(***************************************************************************)
MaxLen == 4

\* the lines a text is made of
Alphabet ==
    { Dash3, Dash4, Blank, Text(1), Meta("title", Title(5)), Meta("labels", <<7>>) }

\* every text of one to MaxLen lines (the text of one empty line is "")
Contents == UNION { [1..n -> Alphabet] : n \in 1..MaxLen }

\* the metadata dicts passed to update_frontmatter_metadata, in insertion order
Patches ==
    { << <<"batch", BatchInfo(5, 1, 5, 1)>> >>,
      << <<"title", Title(6)>> >>,
      << <<"title", Title(6)>>, <<"gdoc_url", Url(1)>> >>,
      <<>> }

Call(op, content, patch, out) == [op |-> op, content |-> content, patch |-> patch, out |-> out]

InitFrontmatter ==
    /\ \E c \in Contents :
          /\ files = [f \in Files |-> IF f = "a.md" THEN c ELSE <<Blank>>]
          /\ last = Call("none", c, <<>>, c)
    /\ gdocs = [d \in DocIds |-> NoDoc]
    /\ pages = [p \in PageIds |-> NoPage]
    /\ config = Env(FALSE, FALSE, FALSE, FALSE, FileOrder)
    /\ now = 1

\* a.md := update_frontmatter_metadata(a.md, metadata)
UpdateMetadata ==
    \E metadata \in Patches :
        /\ now < MaxClock
        /\ files' = [files EXCEPT !["a.md"] = update_frontmatter_metadata(@, metadata)]
        /\ last' = Call("update_frontmatter_metadata", files["a.md"], metadata,
                        files'["a.md"])
        /\ now' = now + 1
        /\ UNCHANGED <<gdocs, pages, config>>

\* strip_frontmatter_for_remote_sync(a.md)
StripFrontmatter ==
    /\ now < MaxClock
    /\ last' = Call("strip_frontmatter_for_remote_sync", files["a.md"], <<>>,
                    strip_frontmatter_for_remote_sync(files["a.md"]))
    /\ now' = now + 1
    /\ UNCHANGED <<files, gdocs, pages, config>>

NextFrontmatter == UpdateMetadata \/ StripFrontmatter

SpecFrontmatter == InitFrontmatter /\ [][NextFrontmatter]_vars

(***************************************************************************)
(* The classification of a command-line argument.  An argument string is   *)
(* what the tests of is_google_doc and is_confluence_page see of it:       *)
(* whether it contains 'docs.google.com', contains 'atlassian.net/wiki',   *)
(* starts with 'confluence:', contains '/', contains '.', is made of       *)
(* digits only, and its length.                                            *)
(***************************************************************************)
Lens == {1, 8, 18, 19, 20, 21, 30}

Paths ==
    { s \in [gdomain : BOOLEAN, cdomain : BOOLEAN, scheme : BOOLEAN, slash : BOOLEAN,
             dot : BOOLEAN, digits : BOOLEAN, len : Lens] :
        /\ s.gdomain => s.dot /\ s.len >= 18
        /\ s.cdomain => s.dot /\ s.slash /\ s.len >= 18
        /\ s.scheme => s.len >= 18
        /\ (s.gdomain /\ s.cdomain) \/ (s.scheme /\ (s.gdomain \/ s.cdomain)) => s.len >= 30
        /\ s.digits => ~s.slash /\ ~s.dot /\ ~s.scheme /\ ~s.gdomain /\ ~s.cdomain }

is_google_doc(path) ==
    path.gdomain \/ (~path.slash /\ ~path.dot /\ path.len > 20)

is_confluence_page(path) ==
    path.cdomain \/ path.scheme \/ (path.digits /\ path.len < 20)

\* main without --diff: the branch taken for an argument, given the results
\* of is_google_doc and is_confluence_page for it; the argument on the other
\* side is a Markdown file
sync_branch(is_gdoc, is_confluence) ==
    IF is_confluence THEN "ConfluencePage"
    ELSE IF is_gdoc THEN "GoogleDoc"
    ELSE "MarkdownFile"

\* main with --diff: the branch taken for an argument
diff_branch(is_gdoc, is_confluence) ==
    IF is_gdoc THEN "GoogleDoc"
    ELSE IF is_confluence THEN "ConfluencePage"
    ELSE "MarkdownFile"

\* one dispatch: the argument, the operation, and the kind main treated the
\* argument as
Dispatched(op, path, treated) == [op |-> op, path |-> path, treated |-> treated]

InitClassify ==
    /\ \E path \in Paths : last = Dispatched("none", path, "none")
    /\ files = [f \in Files |-> <<Blank>>]
    /\ gdocs = [d \in DocIds |-> NoDoc]
    /\ pages = [p \in PageIds |-> NoPage]
    /\ config = Env(TRUE, TRUE, TRUE, TRUE, FileOrder)
    /\ now = 1

\* mdsync notes.md PATH, or mdsync PATH notes.md
DispatchSync ==
    /\ Ready
    /\ last' = Dispatched("sync", last.path,
                          sync_branch(is_google_doc(last.path),
                                      is_confluence_page(last.path)))
    /\ now' = now + 1
    /\ UNCHANGED <<files, gdocs, pages, config>>

\* mdsync notes.md PATH --diff, or mdsync PATH notes.md --diff
DispatchDiff ==
    /\ Ready
    /\ last' = Dispatched("diff", last.path,
                          diff_branch(is_google_doc(last.path),
                                      is_confluence_page(last.path)))
    /\ now' = now + 1
    /\ UNCHANGED <<files, gdocs, pages, config>>

NextClassify == DispatchSync \/ DispatchDiff

SpecClassify == InitClassify /\ [][NextClassify]_vars

(***************************************************************************)
(* The anchors of markdown_to_confluence_storage.  A string is a sequence  *)
(* of atoms: a word (capitalised or in lower case), a whitespace           *)
(* character, a colon, a word in Markdown bold ("**Setup**"), the same     *)
(* word in HTML ("<strong>Setup</strong>"), a hyphen, a percent escape and *)
(* a trailing "{#name}" annotation.  A Markdown document is a sequence of  *)
(* lines, each a heading ("# text") or a paragraph holding one anchor link *)
(* ("[text](#name)"); the HTML has one element for each line.              *)
(***************************************************************************)
Atom(k, n, up) == [k |-> k, n |-> n, up |-> up]
Word(n, up) == Atom("word", n, up)
Space == Atom("space", 0, FALSE)
Colon == Atom("colon", 0, FALSE)
Hyphen == Atom("hyphen", 0, FALSE)
\* "**word**"
Star2(n, up) == Atom("bold", n, up)
\* "<strong>word</strong>"
Strong(n, up) == Atom("strong", n, up)
\* "{#name}", the name being word n in lower case
Note(n) == Atom("note", n, FALSE)
\* "%XX" for the character of code n
Pct(n) == Atom("pct", n, FALSE)
\* the letters "strong" of a tag name
TagName == Atom("tagname", 0, FALSE)

HeadingLine(text) == [kind |-> "heading", href |-> <<>>, text |-> text]
LinkLine(href, text) == [kind |-> "link", href |-> href, text |-> text]
\* <h1 id="ref">text</h1> and <a href="#ref">text</a>
Elem(tag, ref, text) == [tag |-> tag, ref |-> ref, text |-> text]

\* str.lower()
lower(s) == [i \in 1..Len(s) |-> IF s[i].k \in {"word", "bold", "strong", "letter"}
                                 THEN Atom(s[i].k, s[i].n, FALSE) ELSE s[i]]

RECURSIVE strip(_)
\* str.strip()
strip(s) ==
    IF s = <<>> THEN s
    ELSE IF s[1] = Space THEN strip(Tail(s))
    ELSE IF s[Len(s)] = Space THEN strip(SubSeq(s, 1, Len(s) - 1))
    ELSE s

\* markdown.markdown on the text of a heading or of a link: bold becomes a
\* strong element, an annotation stays as text (no attr_list extension)
markdown_inline(text) ==
    [i \in 1..Len(text) |-> IF text[i].k = "bold"
                            THEN Strong(text[i].n, text[i].up) ELSE text[i]]

\* markdown.markdown on the document
markdown_html(markdown_content) ==
    [i \in 1..Len(markdown_content) |->
        LET line == markdown_content[i]
        IN  IF line.kind = "heading"
            THEN Elem("h", <<>>, markdown_inline(line.text))
            ELSE Elem("a", line.href, markdown_inline(line.text))]

\* re.sub(r'\*\*([^*]+)\*\*', r'\1', anchor)
remove_bold(anchor) ==
    [i \in 1..Len(anchor) |-> IF anchor[i].k = "bold"
                              THEN Word(anchor[i].n, anchor[i].up) ELSE anchor[i]]

RECURSIVE spaces_to_hyphens(_)
\* re.sub(r'\s+', '-', anchor)
spaces_to_hyphens(anchor) ==
    IF anchor = <<>> THEN <<>>
    ELSE IF anchor[1] # Space THEN <<anchor[1]>> \o spaces_to_hyphens(Tail(anchor))
    ELSE IF Len(anchor) > 1 /\ anchor[2] = Space THEN spaces_to_hyphens(Tail(anchor))
    ELSE <<Hyphen>> \o spaces_to_hyphens(Tail(anchor))

\* urllib.parse.quote of one atom, safe='-'
quote_atom(a) ==
    CASE a.k = "colon" -> <<Pct(58)>>
      [] a.k = "strong" -> <<Pct(60), TagName, Pct(62), Word(a.n, a.up),
                             Pct(60), Pct(47), TagName, Pct(62)>>
      [] a.k = "bold" -> <<Pct(42), Pct(42), Word(a.n, a.up), Pct(42), Pct(42)>>
      [] a.k = "note" -> <<Pct(123), Pct(35), Word(a.n, FALSE), Pct(125)>>
      [] OTHER -> <<a>>

RECURSIVE quote(_)
\* urllib.parse.quote(anchor, safe='-')
quote(anchor) ==
    IF anchor = <<>> THEN <<>> ELSE quote_atom(anchor[1]) \o quote(Tail(anchor))

generate_confluence_anchor(heading_text) ==
    quote(spaces_to_hyphens(remove_bold(strip(heading_text))))

\* re.sub(r'\s*\{#[^}]+\}\s*$', '', heading_text).strip()
without_annotation(heading_text) ==
    LET s == strip(heading_text)
    IN  IF s # <<>> /\ s[Len(s)].k = "note"
        THEN strip(SubSeq(s, 1, Len(s) - 1)) ELSE s

\* the replacement of one heading element
fix_heading_anchor(el) ==
    LET clean_heading_text == without_annotation(el.text)
    IN  Elem("h", generate_confluence_anchor(clean_heading_text), clean_heading_text)

\* heading_pattern on a heading line: group 2, <<>> when it did not take part
explicit_anchor(text) ==
    IF Len(text) >= 3 /\ text[Len(text)].k = "note" /\ text[Len(text) - 1] = Space
    THEN <<Word(text[Len(text)].n, FALSE)>> ELSE <<>>

\* heading_pattern on a heading line: group 1, stripped
heading_text_of(text) ==
    IF explicit_anchor(text) # <<>> THEN strip(SubSeq(text, 1, Len(text) - 1))
    ELSE strip(text)

\* the keys under which a heading line is entered in anchor_to_heading_map
anchor_keys(text) ==
    { lower(without_annotation(heading_text_of(text))), lower(heading_text_of(text)) }
        \cup (IF explicit_anchor(text) # <<>> THEN {explicit_anchor(text)} ELSE {})

\* the heading lines that entered anchor_name in the map, in document order
anchor_entries(markdown_content, anchor_name) ==
    { i \in 1..Len(markdown_content) :
        /\ markdown_content[i].kind = "heading"
        /\ heading_text_of(markdown_content[i].text) # <<>>
        /\ anchor_name \in anchor_keys(markdown_content[i].text) }

Highest(S) == CHOOSE i \in S : \A j \in S : j <= i

\* the replacement of one anchor link: the entry of the map (the last heading
\* that wrote it), or the anchor generated from the text of the link
fix_anchor_link(markdown_content, el) ==
    LET entries == anchor_entries(markdown_content, el.ref)
    IN  IF entries # {}
        THEN Elem("a", generate_confluence_anchor(
                           without_annotation(heading_text_of(
                               markdown_content[Highest(entries)].text))), el.text)
        ELSE Elem("a", generate_confluence_anchor(el.text), el.text)

markdown_to_confluence_storage(markdown_content) ==
    LET html_content == markdown_html(markdown_content)
    IN  [i \in 1..Len(html_content) |->
            IF html_content[i].tag = "h" THEN fix_heading_anchor(html_content[i])
            ELSE fix_anchor_link(markdown_content, html_content[i])]

MaxLines == 3

\* "Setup", "Step 1:  Setup", "**Setup**", "Setup **guide**", each with no
\* annotation, with {#intro} or with {#setup}
HeadingTexts ==
    { <<Word(1, TRUE)>>,
      <<Word(2, TRUE), Space, Word(3, FALSE), Colon, Space, Space, Word(1, TRUE)>>,
      <<Star2(1, TRUE)>>,
      <<Word(1, TRUE), Space, Star2(4, FALSE)>> }

MarkdownLines ==
    { HeadingLine(t \o n) : t \in HeadingTexts,
                            n \in {<<>>, <<Space, Note(8)>>, <<Space, Note(1)>>} }
    \cup { LinkLine(<<Word(n, FALSE)>>, t) : n \in {1, 8, 9},
                                             t \in {<<Word(1, TRUE)>>, <<Star2(1, TRUE)>>} }

Documents == UNION { [1..n -> MarkdownLines] : n \in 1..MaxLines }

Converted(op, content, out) == [op |-> op, content |-> content, out |-> out]

InitAnchor ==
    /\ \E content \in Documents : last = Converted("none", content, <<>>)
    /\ files = [f \in Files |-> <<Blank>>]
    /\ gdocs = [d \in DocIds |-> NoDoc]
    /\ pages = [p \in PageIds |-> NoPage]
    /\ config = Env(FALSE, TRUE, FALSE, FALSE, FileOrder)
    /\ now = 1

\* markdown_to_confluence_storage(content)
ConvertToStorage ==
    /\ Ready
    /\ last' = Converted("markdown_to_confluence_storage", last.content,
                         markdown_to_confluence_storage(last.content))
    /\ now' = now + 1
    /\ UNCHANGED <<files, gdocs, pages, config>>

NextAnchor == ConvertToStorage

SpecAnchor == InitAnchor /\ [][NextAnchor]_vars

(***************************************************************************)
(* generate_batch_id on the characters of a title.  A title is a sequence  *)
(* of up to MaxLen characters: letters in either case, digits, spaces,     *)
(* hyphens and other characters ("!").                                     *)
(***************************************************************************)
Letter(n, up) == Atom("letter", n, up)
Digit(n) == Atom("digit", n, FALSE)
Bang == Atom("other", 0, FALSE)

\* the characters that pass [^a-zA-Z0-9\s-]
Kept(title) == SelectSeq(title, LAMBDA c : c.k \in {"letter", "digit", "space", "hyphen"})

RECURSIVE squeeze_hyphens(_)
\* re.sub(r'-+', '-', clean_id)
squeeze_hyphens(s) ==
    IF s = <<>> THEN <<>>
    ELSE IF s[1] = Hyphen /\ Len(s) > 1 /\ s[2] = Hyphen THEN squeeze_hyphens(Tail(s))
    ELSE <<s[1]>> \o squeeze_hyphens(Tail(s))

RECURSIVE strip_hyphens(_)
\* clean_id.strip('-')
strip_hyphens(s) ==
    IF s = <<>> THEN s
    ELSE IF s[1] = Hyphen THEN strip_hyphens(Tail(s))
    ELSE IF s[Len(s)] = Hyphen THEN strip_hyphens(SubSeq(s, 1, Len(s) - 1))
    ELSE s

\* title.split(): the first character of every word, in order
initials(title) ==
    LET starts == { i \in 1..Len(title) :
                      title[i] # Space /\ (i = 1 \/ title[i - 1] = Space) }
        RECURSIVE from(_)
        from(i) == IF i > Len(title) THEN <<>>
                   ELSE IF i \in starts THEN <<title[i]>> \o from(i + 1)
                   ELSE from(i + 1)
    IN  from(1)

\* the literal 'batch'
BatchWord == <<Letter(2, FALSE), Letter(1, FALSE), Letter(20, FALSE),
               Letter(3, FALSE), Letter(8, FALSE)>>

\* the cleaned title, or the fallback when it is shorter than 3
batch_id_or_initials(title, clean_id) ==
    IF Len(clean_id) < 3
    THEN LET words == initials(title)
         IN  IF Len(words) >= 2
             THEN lower(SubSeq(words, 1, IF Len(words) < 3 THEN Len(words) ELSE 3))
             ELSE lower(SubSeq(title, 1, IF Len(title) < 8 THEN Len(title) ELSE 8))
    ELSE clean_id

\* the prefix 'batch-' and the default 'batch'
batch_id_prefixed(clean_id) ==
    IF clean_id = <<>> THEN BatchWord
    ELSE IF clean_id[1].k # "letter" THEN BatchWord \o <<Hyphen>> \o clean_id
    ELSE clean_id

\* generate_batch_id on the characters of the title
batch_id_text(title) ==
    batch_id_prefixed(batch_id_or_initials(title,
        strip_hyphens(squeeze_hyphens(spaces_to_hyphens(strip(Kept(lower(title))))))))

Characters == { Letter(1, FALSE), Letter(2, TRUE), Digit(1), Space, Hyphen, Bang }

Titles == UNION { [1..n -> Characters] : n \in 0..MaxLen }

Generated(op, title, out) == [op |-> op, title |-> title, out |-> out]

InitBatchId ==
    /\ \E title \in Titles : last = Generated("none", title, <<>>)
    /\ files = [f \in Files |-> <<Blank>>]
    /\ gdocs = [d \in DocIds |-> NoDoc]
    /\ pages = [p \in PageIds |-> NoPage]
    /\ config = Env(TRUE, FALSE, FALSE, FALSE, FileOrder)
    /\ now = 1

\* generate_batch_id(title)
GenerateBatchId ==
    /\ Ready
    /\ last' = Generated("generate_batch_id", last.title, batch_id_text(last.title))
    /\ now' = now + 1
    /\ UNCHANGED <<files, gdocs, pages, config>>

NextBatchId == GenerateBatchId

SpecBatchId == InitBatchId /\ [][NextBatchId]_vars

(***************************************************************************)
(* lock_confluence_page.  The current user is the configured username;     *)
(* the allowed editors come from the argument, the environment variables   *)
(* or the permissions of the secrets file.  The remote decides what the    *)
(* user endpoint and the user search return and whether it accepts the     *)
(* restriction request.  The page is page 1.                               *)
(***************************************************************************)
Username == "me@x"
Emails == {"me@x", "ann@x", "bob@x"}

\* a dict of allowed editors; None is NoEditors
Editors(users, groups) == [given |-> TRUE, users |-> users, groups |-> groups]
NoEditors == [given |-> FALSE, users |-> <<>>, groups |-> <<>>]

\* the account id the remote holds for an email; "" is None
AccountId(email) == email
NoAccount == ""

\* get_confluence_permissions_config and the 'allowed_editors' key
permissions_allowed_editors(perms_config) ==
    IF perms_config.given THEN perms_config ELSE Editors(<<Username>>, <<>>)

\* the allowed editors when the argument gives none
default_allowed_editors(env_users, env_groups, perms_config) ==
    IF env_groups.given \/ env_users.given
    THEN Editors(env_users.users, env_groups.groups)
    ELSE permissions_allowed_editors(perms_config)

\* 'Always include current user to prevent lockout'
editor_users(allowed_editors) ==
    IF \E i \in 1..Len(allowed_editors.users) : allowed_editors.users[i] = Username
    THEN allowed_editors.users
    ELSE allowed_editors.users \o <<Username>>

\* _resolve_user_email_to_account_id: for the current user the user endpoint
\* is asked first and its answer returned when the status is 200, with or
\* without an accountId; otherwise the search by email
\* remote.current is "id", "no_id" or "fail"; remote.found are the emails the
\* search matches
resolve_user_email_to_account_id(email, remote) ==
    IF email = Username /\ remote.current = "id" THEN AccountId(email)
    ELSE IF email = Username /\ remote.current = "no_id" THEN NoAccount
    ELSE IF email \in remote.found THEN AccountId(email)
    ELSE NoAccount

\* resolved_users: the account ids of the editor_users that resolved
resolved_users(users, remote) ==
    LET ids == [i \in 1..Len(users) |-> resolve_user_email_to_account_id(users[i], remote)]
    IN  SelectSeq(ids, LAMBDA id : id # NoAccount)

\* the outcome of a call: the request sent (if any) and the value returned
LockResult(sent, user, group, returned) ==
    [sent |-> sent, user |-> user, group |-> group, returned |-> returned]

lock_with_editors(allowed_editors, remote) ==
    LET resolved == resolved_users(editor_users(allowed_editors), remote)
    IN  IF resolved = <<>> THEN LockResult(FALSE, <<>>, <<>>, FALSE)
        ELSE LockResult(TRUE, resolved, allowed_editors.groups, remote.accepts)

lock_confluence_page(allowed_editors, env_users, env_groups, perms_config, remote) ==
    lock_with_editors(
        IF allowed_editors.given
            /\ (allowed_editors.users # <<>> \/ allowed_editors.groups # <<>>)
        THEN allowed_editors
        ELSE default_allowed_editors(env_users, env_groups, perms_config), remote)

\* unlock_confluence_page: DELETE of the restrictions
unlock_confluence_page(remote) == LockResult(TRUE, <<>>, <<>>, remote.accepts)

EditorLists == { <<>>, <<"ann@x">>, <<"me@x", "ann@x">>, <<"ann@x", "bob@x">> }
GroupLists == { <<>>, <<"staff">> }

Remotes ==
    [current : {"id", "no_id", "fail"}, found : SUBSET Emails \ {{"bob@x"}, {"me@x", "bob@x"}},
     accepts : BOOLEAN]

LockInputs ==
    [allowed_editors : {NoEditors, Editors(<<"ann@x">>, <<>>), Editors(<<>>, <<"staff">>)},
     env_users : {NoEditors} \cup { Editors(u, <<>>) : u \in EditorLists \ {<<>>} },
     env_groups : {NoEditors, Editors(<<>>, <<"staff">>)},
     perms_config : {NoEditors, Editors(<<"bob@x">>, <<"staff">>)}]

Locking(op, given, remote, result) ==
    [op |-> op, given |-> given, remote |-> remote, result |-> result]

InitLock ==
    /\ \E given \in LockInputs, remote \in Remotes :
          last = Locking("none", given, remote, LockResult(FALSE, <<>>, <<>>, FALSE))
    /\ files = [f \in Files |-> <<Blank>>]
    /\ gdocs = [d \in DocIds |-> NoDoc]
    /\ pages = [p \in PageIds |-> IF p = 1 THEN NewPage(<<Text(9)>>) ELSE NoPage]
    /\ config = Env(FALSE, TRUE, FALSE, FALSE, FileOrder)
    /\ now = 1

\* mdsync confluence:ENG/1 --lock-confluence
LockConfluence ==
    /\ Ready
    /\ LET result == lock_confluence_page(last.given.allowed_editors, last.given.env_users,
                                          last.given.env_groups, last.given.perms_config,
                                          last.remote)
       IN  /\ last' = Locking("lock_confluence_page", last.given, last.remote, result)
           /\ pages' = [pages EXCEPT ![1].frozen = @ \/ (result.sent /\ result.returned)]
    /\ now' = now + 1
    /\ UNCHANGED <<files, gdocs, config>>

\* mdsync confluence:ENG/1 --unlock-confluence
UnlockConfluence ==
    /\ Ready
    /\ LET result == unlock_confluence_page(last.remote)
       IN  /\ last' = Locking("unlock_confluence_page", last.given, last.remote, result)
           /\ pages' = [pages EXCEPT ![1].frozen = @ /\ ~result.returned]
    /\ now' = now + 1
    /\ UNCHANGED <<files, gdocs, config>>

NextLock == LockConfluence \/ UnlockConfluence

SpecLock == InitLock /\ [][NextLock]_vars

(***************************************************************************)
(* The credentials main acquires.  The world of Init, in every             *)
(* configuration of the two platforms: Google credentials configured or    *)
(* not, Confluence credentials configured or not, application default      *)
(* credentials present or not.                                             *)
(***************************************************************************)
CredentialEnvs == { Env(gcfg, ccfg, adc, TRUE, FileOrder) : gcfg, ccfg, adc \in BOOLEAN }

InitCredentials ==
    /\ \E c \in InitContents :
          files = [f \in Files |->
                     IF f = "a.md" THEN c
                     ELSE Fm(<<Meta("title", Title(6))>>, <<Blank, Text(2)>>)]
    /\ gdocs = [d \in DocIds |-> IF d = 3 THEN NoDoc ELSE NewDoc(<<Text(9)>>, 8, 0)]
    /\ pages = [p \in PageIds |-> IF p = 3 THEN NoPage ELSE NewPage(<<Text(9)>>)]
    /\ config \in CredentialEnvs
    /\ now = 1
    /\ last = Idle(files)

NextCredentials ==
    \/ SyncToGdoc \/ CreateGdoc \/ AutoSync \/ SyncToConfluence \/ CreateConfluence
    \/ ExportGdoc \/ ExportConfluence

SpecCredentials == InitCredentials /\ [][NextCredentials]_vars

(***************************************************************************)
(* Properties.  They speak of the last invocation: its command line        *)
(* (last.args), the files before it (last.pre) and after it (files), and   *)
(* what it did.                                                            *)
(***************************************************************************)
MetaBefore(f) == extract_frontmatter_metadata(last.pre[f])
MetaAfter(f)  == extract_frontmatter_metadata(files[f])

\* the last invocation had a Markdown file as its source
FromMarkdown == last.args.source.kind = "md" \/ last.args.op = "batch"

\* the mapping entries of the frontmatter block that frontmatter.loads finds
FrontmatterBlock(content) ==
    LET text == Strip(content)
        j    == FirstFrom(text, 2, Boundary)
    IN  { text[i] : i \in { h \in 2..(j - 1) : IsMapping(text[h]) } }

LinesOf(text) == { text[i] : i \in 1..Len(text) }

\* an uploaded text holds a line of the frontmatter block of its file that
\* is no line of the file's body
Leaks(u) ==
    /\ HasFrontmatter(u.src)
    /\ (LinesOf(u.text) \cap FrontmatterBlock(u.src)) \ LinesOf(FmLoads(u.src).body) # {}

\* C1: no content write is issued to a destination that the frozen check
\* reports frozen when the write is issued.
C1_NoWriteToFrozen == \A w \in last.writes : ~w.frozen

\* C2: for every file in which extract_frontmatter_metadata finds a
\* frontmatter block, no uploaded text made from it holds a line of the block.
C2_NoMetadataLeak == \A u \in last.uploads : ~Leaks(u)

\* the last invocation synced a Markdown file to a supplied destination whose
\* id differs from the id remembered in the file's frontmatter
MismatchedGdoc ==
    /\ last.args.op = "sync" /\ last.args.source.kind = "md"
    /\ last.args.destination.kind = "gdoc"
    /\ Has(MetaBefore(last.args.source.f), "gdoc_url")
    /\ extract_doc_id_from_url(MetaBefore(last.args.source.f)["gdoc_url"])
         \notin {0, last.args.destination.id}
MismatchedConfluence ==
    /\ last.args.op = "sync" /\ last.args.source.kind = "md"
    /\ last.args.destination.kind = "conf"
    /\ Has(MetaBefore(last.args.source.f), "confluence_url")
    /\ parse_confluence_destination(MetaBefore(last.args.source.f)["confluence_url"])
         \notin {0, last.args.destination.id}
Confirmed == \E i \in 1..Len(last.prompts) : last.prompts[i].ans = "y"

\* C3: on a destination mismatch the remote write and the change of the
\* file happen only after the user has confirmed.
C3_MismatchNeedsConfirmation ==
    (MismatchedGdoc \/ MismatchedConfluence) /\ ~Confirmed
        => last.writes = {} /\ files = last.pre

\* C4: every frontmatter key a file has before an invocation it still has
\* after it.
C4_KeysNeverDeleted ==
    \A f \in Files : \A k \in Keys : Has(MetaBefore(f), k) => Has(MetaAfter(f), k)

\* the last invocation wrote gdoc_url (confluence_url) back into file f
WroteBack(f, plat) ==
    /\ files[f] # last.pre[f]
    /\ \/ last.args.op = "sync" /\ last.args.source = Md(f)
          /\ (IF last.det.ran THEN last.det.sel.kind ELSE last.args.destination.kind) = plat
       \/ last.args.op = "create" /\ plat = "gdoc" /\ last.args.source = Md(f)
       \/ last.args.op = "create_confluence" /\ plat = "conf" /\ last.args.source = Md(f)
       \/ last.args.op = "sync" /\ last.args.source.kind = plat
          /\ last.args.destination = Md(f)

StampsKept(f, created, modified) ==
    /\ Has(MetaBefore(f), created) => MetaAfter(f)[created] = MetaBefore(f)[created]
    /\ MetaAfter(f)[modified] = LocalTime(last.t)

\* C5: a write-back of gdoc_url (confluence_url) leaves a present
\* gdoc_created (confluence_created) as it is and sets gdoc_modified
\* (confluence_modified) to the current time.
C5_CreatedOnceModifiedNow ==
    \A f \in Files :
        /\ WroteBack(f, "gdoc") => StampsKept(f, "gdoc_created", "gdoc_modified")
        /\ WroteBack(f, "conf") => StampsKept(f, "confluence_created", "confluence_modified")

\* the sync record of a file
Record(m) == [k \in {"gdoc_url", "gdoc_created", "gdoc_modified", "confluence_url",
                     "confluence_created", "confluence_modified", "batch"} |-> m[k]]

\* the remote create or update call of the last invocation was made and failed
RemoteCallFailed == last.uploads # {} /\ last.err

\* C6: an invocation with a Markdown source changes a file's sync record
\* only when its remote create or update call was made and succeeded, and
\* when that call fails it leaves every local file as it was.
C6_RecordOnlyAfterRemoteSuccess ==
    /\ RemoteCallFailed /\ FromMarkdown => files = last.pre
    /\ \A f \in Files :
          FromMarkdown /\ Record(MetaAfter(f)) # Record(MetaBefore(f))
              => last.uploads # {} /\ ~last.err /\ last.code = 0

\* a failed remote call, on a file that a write-back would have changed
C6_Witness ==
    /\ RemoteCallFailed /\ FromMarkdown /\ last.args.op \in {"sync", "create", "batch"}
    /\ files = last.pre
    /\ ~FmLoads(files["a.md"]).raised

\* the invocation before was a successful sync of f to a Google Doc, or the
\* creation of one from f, that wrote the document's URL into f
SyncedTo(f, d) ==
    /\ last.args.op \in {"sync", "create"} /\ last.args.source = Md(f)
    /\ last.code = 0 /\ ~last.err /\ last.uploads # {}
    /\ (last.args.op = "sync" =>
          (IF last.det.ran THEN last.det.sel ELSE last.args.destination) = Gdoc(d))
    /\ Has(MetaAfter(f), "gdoc_url") /\ MetaAfter(f)["gdoc_url"] = Url(d)
    /\ gdocs[d].exists /\ \E u \in last.uploads : gdocs[d].body = u.text

\* C7: a --diff of a file against the Google Doc it has just been synced to
\* reports no differences.
C7_SyncThenDiffClean ==
    [][ \A f \in SyncFiles, d \in DocIds :
           SyncedTo(f, d) /\ last'.args = Args("diff", Md(f), Gdoc(d), FALSE, <<>>, "")
               => last'.diff = "same" ]_vars

\* the destinations that frontmatter m names with an id in the URL
Named(m) ==
    (IF Has(m, "gdoc_url") /\ extract_doc_id_from_url(m["gdoc_url"]) # 0
     THEN {Gdoc(extract_doc_id_from_url(m["gdoc_url"]))} ELSE {})
    \cup (IF Has(m, "confluence_url") /\ parse_confluence_destination(m["confluence_url"]) # 0
          THEN {Conf(parse_confluence_destination(m["confluence_url"]))} ELSE {})

\* what the frozen check reports for a destination; detection runs it
\* without Google credentials
ReportedFrozen(x) ==
    IF x.kind = "gdoc" THEN check_gdoc_frozen_status(gdocs, x.id, FALSE, config)
    ELSE check_confluence_frozen_status(pages, x.id, config)

Chose == \E i \in 1..Len(last.prompts) : last.prompts[i].gate = "choose"

Declined ==
    \E i \in 1..Len(last.prompts) :
        /\ last.prompts[i].gate \in {"mismatch", "existing", "batch_existing",
                                     "batch_individual"}
        /\ last.prompts[i].ans \in {"n", "", "eof"}

\* C9: a declined confirmation ends the invocation with exit code 0, no
\* remote write and no change to a local file.
C9_DeclineCancels ==
    Declined => /\ last.code = 0 /\ ~last.err
                /\ last.writes = {} /\ last.uploads = {} /\ files = last.pre

\* C10: an invocation that ends in an error exits with code 1; exit code 0
\* occurs only on success or a cancelled confirmation.
C10_ErrorsExitOne == last.err => last.code = 1

\* C11: when a remote platform call of the last invocation failed, the
\* process exited non-zero: the operation did not go on to report success
\* and exit 0.
C11_RemoteFailureExits == RemoteCallFailed => last.code # 0

\* the last invocation was mdsync --batch and its batch document was created
BatchCreated ==
    /\ last.args.op = "batch"
    /\ last.code = 0 /\ ~last.err
    /\ last.uploads # {}

\* file f carries the batch record of document d made at the last invocation
\* and has every other key as it was before
RecordedIn(f, d) ==
    /\ MetaAfter(f)["batch"]
         = BatchInfo(gdocs[d].title, d, heading_title_of(last.pre, f), last.t)
    /\ \A k \in Keys \ {"batch"} : MetaAfter(f)[k] = MetaBefore(f)[k]

C13_BatchAgreesWithGdocUrl ==
    \A f \in Files :
        (InBatch(files, f) /\ Has(MetaAfter(f), "gdoc_url")) =>
            extract_doc_id_from_url(MetaAfter(f)["gdoc_url"]) = BatchDocOf(BatchOf(files, f))

\* the identifier of the last invocation is the batch_id, the doc_id or the
\* batch_title of the batch that file f belonged to
IdentifierOf(f) ==
    /\ InBatch(last.pre, f)
    /\ \/ last.args.source.kind = "gdoc"
          /\ last.args.source.id = BatchDocOf(BatchOf(last.pre, f))
       \/ last.args.source.kind = "name"
          /\ last.args.source.id \in {BatchOf(last.pre, f)[1], BatchOf(last.pre, f)[2]}

\* the last invocation rewrote document d from exactly the files whose batch
\* record names d
Rewrote(d) ==
    /\ last.writes # {}
    /\ \A w \in last.writes : w.plat = "gdoc" /\ w.id = d
    /\ last.uploads = batch_uploads(last.pre, batch_files_of(last.pre, d))

\* C14: when the identifier of mdsync --batch-update equals the batch_id, the
\* doc_id or the batch_title of a batch, the document rewritten is that
\* batch's document and the files re-inserted are exactly the files whose
\* batch record names it, whatever the directory walk order and whatever
\* other batches exist.
C14_UpdateResolvesBatch ==
    \A f \in Files :
        (last.args.op = "batch_update" /\ last.code = 0 /\ IdentifierOf(f)) =>
            Rewrote(BatchDocOf(BatchOf(last.pre, f)))

\* the last invocation was mdsync --batch-update, found its batch and ended
\* with no failure reported
UpdateCompleted ==
    /\ last.args.op = "batch_update"
    /\ last.code = 0 /\ ~last.err
    /\ last.writes # {}

\* the files that belonged to the batch of document d
Members(d) == { f \in Files : InBatch(last.pre, f) /\ BatchDocOf(BatchOf(last.pre, f)) = d }

\* the H1 section of member file f: its heading, an empty line, its stripped body
SectionOf(f) ==
    <<Heading(BatchOf(last.pre, f)[4]), Blank>>
    \o strip_frontmatter_for_remote_sync(last.pre[f])

\* the sections of the members of d in lexicographic order of file path
SectionsInOrder(d) ==
    IF Members(d) = {"a.md", "b.md"}
    THEN SectionOf("a.md") \o SectionOf("b.md")
    ELSE SectionOf(CHOOSE f \in Members(d) : TRUE)

\* the number of H1 paragraphs of a document body
H1Count(body) == Cardinality({ i \in 1..Len(body) : body[i].t = "heading" })

RefHeading(body, heading_title) == FirstHeading(body, 1, {heading_title})

RefSection(body, i) ==
    SubSeq(body, i + 1,
           IF \E j \in (i + 1)..Len(body) : body[j].t = "heading"
           THEN (CHOOSE j \in (i + 1)..Len(body) :
                    /\ body[j].t = "heading"
                    /\ \A h \in (i + 1)..(j - 1) : body[h].t # "heading") - 1
           ELSE Len(body))

RefVerdict(stripped, body, heading_title) ==
    IF RefHeading(body, heading_title) = 0 THEN "missing section"
    ELSE IF Strip(stripped) = Strip(RefSection(body, RefHeading(body, heading_title)))
    THEN "no differences"
    ELSE "differences"

\* the last invocation was mdsync DOC --diff-batch and compared the files of
\* the batch with the document
BatchDiffed == last.args.op = "diff_batch" /\ last.verdicts # {}

\* C16: mdsync DOC --diff-batch gives a verdict for exactly the files whose
\* batch record names DOC, and each verdict is that of the reference:
\* 'missing section' exactly when no H1 has the file's heading_title,
\* 'no differences' exactly when the file's stripped body equals the text
\* between that H1 and the next H1 or the document end, 'differences'
\* otherwise.
C16_VerdictsFollowReference ==
    BatchDiffed =>
        /\ { v[1] : v \in last.verdicts }
             = { f \in Files : InBatch(files, f)
                               /\ BatchDocOf(BatchOf(files, f)) = last.args.source.id }
        /\ \A v \in last.verdicts :
              v[2] = RefVerdict(strip_frontmatter_for_remote_sync(files[v[1]]),
                                gdocs[last.args.source.id].body,
                                BatchOf(files, v[1])[4])

\* C17: update_frontmatter_metadata is idempotent: applied with the same
\* metadata to its own result, it returns that result, for every content
\* (with a well-formed, a malformed or unterminated, or no frontmatter block).
C17_UpdateIdempotent ==
    last.op = "update_frontmatter_metadata" =>
        update_frontmatter_metadata(last.out, last.patch) = last.out

\* the last call was update_frontmatter_metadata on a content that
\* frontmatter.loads reads without raising
Updated == last.op = "update_frontmatter_metadata" /\ ~FmLoads(last.content).raised

\* the stripped content starts with a block between two boundary lines
Delimited(content) ==
    /\ IsBoundary(Strip(content)[1])
    /\ FirstFrom(Strip(content), 2, Boundary) # 0

\* text ends with the whole of content
EndsWith(text, content) ==
    /\ Len(text) >= Len(content)
    /\ SubSeq(text, Len(text) - Len(content) + 1, Len(text)) = content

Stripped == last.op = "strip_frontmatter_for_remote_sync"

\* the first line after the first that is '---' (0: there is none)
Closing(content) == FirstFrom(content, 2, {"dash3"})

\* the content is a '---' line, metadata lines, a '---' line and a body
MetadataBlock(content) ==
    /\ content[1] = Dash3
    /\ Closing(content) # 0
    /\ \A i \in 2..(Closing(content) - 1) : content[i].t = "meta"

RuleKind(path) ==
    IF path.gdomain \/ (~path.slash /\ ~path.dot /\ path.len > 20) THEN "GoogleDoc"
    ELSE IF path.cdomain \/ path.scheme \/ (path.digits /\ path.len < 20)
    THEN "ConfluencePage"
    ELSE "MarkdownFile"

\* C20: every argument string is classified by the stated rules, and the
\* dispatcher treats the argument as the kind the rules give it.
C20_DispatchedByRules ==
    last.op # "none" => last.treated = RuleKind(last.path)

\* the anchor the heading text stands for: emphasis and the annotation
\* removed, case kept, whitespace runs to single hyphens, percent-encoded
AnchorOf(text) ==
    LET plain == remove_bold(without_annotation(text))
        hyphenated == spaces_to_hyphens(plain)
    IN  quote(hyphenated)

\* the names a link may use for the heading line: its annotation, or its
\* text in lower case
NamesOf(text) ==
    {lower(without_annotation(text))}
        \cup (IF text[Len(text)].k = "note" THEN {<<Word(text[Len(text)].n, FALSE)>>} ELSE {})

\* C21: after markdown_to_confluence_storage, every anchor link whose name is
\* the {#name} annotation of a heading, or the lowercased text of a heading,
\* has as href the id emitted for that heading, and that id is the heading
\* text with emphasis and annotation removed, case kept, whitespace runs as
\* single hyphens, percent-encoded.
C21_AnchorLinksResolve ==
    last.op = "markdown_to_confluence_storage" =>
        \A i, j \in 1..Len(last.content) :
            /\ last.content[i].kind = "link"
            /\ last.content[j].kind = "heading"
            /\ last.content[i].href \in NamesOf(last.content[j].text)
            => /\ last.out[i].ref = last.out[j].ref
               /\ last.out[j].ref = AnchorOf(last.content[j].text)

\* C22: generate_batch_id returns a non-empty token that starts with a
\* letter, consists only of lowercase letters, digits and single hyphens, and
\* has at least three characters.
C22_BatchIdWellFormed ==
    last.op = "generate_batch_id" =>
        /\ last.out # <<>>
        /\ last.out[1].k = "letter"
        /\ \A i \in 1..Len(last.out) :
              /\ last.out[i].k \in {"letter", "digit", "hyphen"}
              /\ ~last.out[i].up
              /\ (i > 1 /\ last.out[i] = Hyphen) => last.out[i - 1] # Hyphen
        /\ Len(last.out) >= 3

\* C23: whenever lock_confluence_page sends the restriction request, the
\* account id of the current user is among the users of that request; when
\* the current user cannot be resolved nothing is sent and the function
\* returns False.
C23_LockKeepsCurrentUser ==
    last.op = "lock_confluence_page" =>
        /\ last.result.sent =>
              \E i \in 1..Len(last.result.user) : last.result.user[i] = AccountId(Username)
        /\ resolve_user_email_to_account_id(Username, last.remote) = NoAccount =>
              ~last.result.sent /\ ~last.result.returned

\* the last invocation was a sync of a Markdown file to a Google Doc, or a
\* --create, with --force
ForcedToGdoc ==
    /\ last.args.force /\ last.args.source.kind = "md"
    /\ \/ last.args.op = "create"
       \/ last.args.op = "sync" /\ last.args.destination.kind = "gdoc"

\* C24: a Markdown-to-Google-Doc sync or create run with --force issues no
\* prompt, and when it wrote to a document and succeeded the gdoc_url of the
\* file names that document.
C24_ForceSkipsConfirmation ==
    ForcedToGdoc =>
        /\ last.prompts = <<>>
        /\ \A w \in last.writes :
              last.code = 0 =>
              /\ Has(MetaAfter(last.args.source.f), "gdoc_url")
              /\ extract_doc_id_from_url(MetaAfter(last.args.source.f)["gdoc_url"]) = w.id

\* destination detection of the last invocation ran the frozen check on the
\* Google Doc the frontmatter names
GdocFrozenChecked ==
    /\ last.det.ran
    /\ \E x \in Named(MetaBefore(last.args.source.f)) : x.kind = "gdoc"

\* the last invocation took the Markdown -> Google Doc branch with the Google
\* Doc that detection selected
GdocImportCalled == last.det.ran /\ last.det.sel.kind = "gdoc"

\* C25: when the Google Doc destination of a Markdown source is selected from
\* the frontmatter, the frozen check and the import that follows run with
\* Google credentials that main has acquired.
C25_CredentialsBeforeGoogleCalls ==
    GdocFrozenChecked \/ GdocImportCalled => NeedsCreds(last.args)

\* the last invocation was a sync of a Markdown file to a Google Doc given on
\* the command line, or a --create, and no confirmation was declined
ConfirmedToGdoc ==
    /\ last.args.source.kind = "md"
    /\ \/ last.args.op = "create"
       \/ last.args.op = "sync" /\ last.args.destination.kind = "gdoc"
    /\ \A i \in 1..Len(last.prompts) : last.prompts[i].ans = "y"

\* C26: a Markdown-to-Google-Doc sync or --create with Google credentials
\* and no Confluence credentials configured reaches the Google Doc write:
\* the missing Confluence credentials do not end the run.
C26_ConfluenceOnlyWhenInvolved ==
    ConfirmedToGdoc /\ config.gcfg /\ ~config.ccfg => last.uploads # {}

\* the invocation before created batch document d from the files of its
\* command line
BatchCreatedAs(d) ==
    /\ BatchCreated
    /\ gdocs[d].exists /\ gdocs[d].created = last.t
    /\ \A i \in 1..Len(last.args.batch) :
          /\ InBatch(files, last.args.batch[i])
          /\ BatchDocOf(BatchOf(files, last.args.batch[i])) = d

\* C27: a --diff-batch of the batch document that mdsync --batch has just
\* created finds a section for every member file and reports no differences
\* for each of them.
C27_BatchThenDiffClean ==
    [][ \A d \in DocIds :
           BatchCreatedAs(d)
           /\ last'.args = Args("diff_batch", Gdoc(d), NoArg, FALSE, <<>>, "")
               => \A i \in 1..Len(last.args.batch) :
                     <<last.args.batch[i], "no differences">> \in last'.verdicts ]_vars

\* the files that carry the same batch_id carry the same doc_id
OneDocumentPerBatchId ==
    \A f, g \in Files :
        InBatch(files, f) /\ InBatch(files, g)
        /\ BatchOf(files, f)[1] = BatchOf(files, g)[1]
            => BatchDocOf(BatchOf(files, f)) = BatchDocOf(BatchOf(files, g))

\* C28: a batch_id identifies one batch document: no operation leads from
\* files whose batch_id determines their doc_id to files where two carry the
\* same batch_id and different doc_ids.
C28_BatchIdNamesOneDocument ==
    [][ OneDocumentPerBatchId => OneDocumentPerBatchId' ]_vars

\* C29: when mdsync IDENTIFIER --batch-update returns, no temporary document
\* 'temp_batch_update_i' that it created exists any more, also when the
\* processing of a member file failed.
C29_NoTemporaryLeftBehind ==
    last.args.op = "batch_update" => last.temps = {}

\* C30: no argument satisfies both is_google_doc and is_confluence_page, and
\* the kind main treats an argument as is the same whether the Google Doc
\* branch or the Confluence branch is tested first.
C30_ClassificationUnambiguous ==
    last.op # "none" =>
        /\ ~(is_google_doc(last.path) /\ is_confluence_page(last.path))
        /\ sync_branch(is_google_doc(last.path), is_confluence_page(last.path))
             = diff_branch(is_google_doc(last.path), is_confluence_page(last.path))

=============================================================================
